---- MODULE Spec2Model ----
(***************************************************************************)
(* Scoring engine of ethBenchmark: scoreMetric, the three category scores, *)
(* the overall score and the verdict (internal/report/report.go).          *)
(*                                                                         *)
(* The program computes every score in float64.  TLC has 32-bit integers   *)
(* only, so a float64 is modelled as sign, odd mantissa and binary         *)
(* exponent, the mantissa being a little-endian sequence of base-2^15      *)
(* limbs; every arithmetic operation rounds to 53 significant bits, ties   *)
(* to even, as IEEE 754 binary64 does.  Overflow and subnormals cannot     *)
(* occur for the magnitudes scored here and are not modelled.              *)
(***************************************************************************)
EXTENDS Integers, Sequences, FiniteSets, TLC

----------------------------------------------------------------------------
(* Natural numbers of arbitrary size: <<>> is 0, limb 1 is the least       *)
(* significant, the last limb is never 0.                                  *)

LimbBits == 15
Base == 32768

RECURSIVE Pow2(_)
Pow2(n) == IF n = 0 THEN 1 ELSE 2 * Pow2(n - 1)

RECURSIVE BNorm(_)
BNorm(a) ==
    IF a = <<>> THEN <<>>
    ELSE IF a[Len(a)] = 0 THEN BNorm(SubSeq(a, 1, Len(a) - 1))
    ELSE a

RECURSIVE BFromInt(_)
BFromInt(n) == IF n = 0 THEN <<>> ELSE <<n % Base>> \o BFromInt(n \div Base)

RECURSIVE BToInt(_)
BToInt(a) == IF a = <<>> THEN 0 ELSE a[1] + Base * BToInt(Tail(a))

RECURSIVE BAddC(_, _, _)
BAddC(a, b, c) ==
    IF a = <<>> /\ b = <<>> THEN (IF c = 0 THEN <<>> ELSE <<c>>)
    ELSE LET x == IF a = <<>> THEN 0 ELSE a[1]
             y == IF b = <<>> THEN 0 ELSE b[1]
             s == x + y + c
         IN  <<s % Base>> \o BAddC(IF a = <<>> THEN a ELSE Tail(a),
                                   IF b = <<>> THEN b ELSE Tail(b),
                                   s \div Base)

BAdd(a, b) == BAddC(a, b, 0)

\* a - b for a >= b
RECURSIVE BSubC(_, _, _)
BSubC(a, b, c) ==
    IF a = <<>> THEN <<>>
    ELSE LET y == IF b = <<>> THEN 0 ELSE b[1]
             d == a[1] - y - c
         IN  <<IF d < 0 THEN d + Base ELSE d>> \o
             BSubC(Tail(a), IF b = <<>> THEN b ELSE Tail(b),
                   IF d < 0 THEN 1 ELSE 0)

BSub(a, b) == BNorm(BSubC(a, b, 0))

\* -1, 0, 1 as a < b, a = b, a > b
RECURSIVE BCmpFrom(_, _, _)
BCmpFrom(a, b, i) ==
    IF i = 0 THEN 0
    ELSE IF a[i] < b[i] THEN -1
    ELSE IF a[i] > b[i] THEN 1
    ELSE BCmpFrom(a, b, i - 1)

BCmp(a, b) ==
    IF Len(a) < Len(b) THEN -1
    ELSE IF Len(a) > Len(b) THEN 1
    ELSE BCmpFrom(a, b, Len(a))

\* a * d for 0 <= d < Base
RECURSIVE BMulSmallC(_, _, _)
BMulSmallC(a, d, c) ==
    IF a = <<>> THEN (IF c = 0 THEN <<>> ELSE <<c>>)
    ELSE LET p == a[1] * d + c
         IN  <<p % Base>> \o BMulSmallC(Tail(a), d, p \div Base)

BMulSmall(a, d) == IF d = 0 THEN <<>> ELSE BMulSmallC(a, d, 0)

RECURSIVE BMul(_, _)
BMul(a, b) ==
    IF b = <<>> \/ a = <<>> THEN <<>>
    ELSE LET rest == BMul(a, Tail(b))
         IN  BAdd(BMulSmall(a, b[1]),
                  IF rest = <<>> THEN <<>> ELSE <<0>> \o rest)

\* <<quotient limbs (most significant first, not normalised), remainder>>
\* of a divided by d, for 0 < d < Base
RECURSIVE BDivSmallFrom(_, _, _, _)
BDivSmallFrom(a, d, i, r) ==
    IF i = 0 THEN <<<<>>, r>>
    ELSE LET cur  == r * Base + a[i]
             rest == BDivSmallFrom(a, d, i - 1, cur % d)
         IN  <<rest[1] \o <<cur \div d>>, rest[2]>>

BDivSmall(a, d) == BNorm(BDivSmallFrom(a, d, Len(a), 0)[1])
BModSmall(a, d) == BDivSmallFrom(a, d, Len(a), 0)[2]

RECURSIVE Zeros(_)
Zeros(n) == IF n = 0 THEN <<>> ELSE <<0>> \o Zeros(n - 1)

\* a * 2^n
BShl(a, n) ==
    IF a = <<>> THEN <<>>
    ELSE Zeros(n \div LimbBits) \o BMulSmall(a, Pow2(n % LimbBits))

\* floor(a / 2^n)
BShr(a, n) ==
    LET k == n \div LimbBits
    IN  IF k >= Len(a) THEN <<>>
        ELSE BDivSmall(SubSeq(a, k + 1, Len(a)), Pow2(n % LimbBits))

RECURSIVE IntBitLen(_)
IntBitLen(n) == IF n = 0 THEN 0 ELSE 1 + IntBitLen(n \div 2)

BBitLen(a) ==
    IF a = <<>> THEN 0 ELSE LimbBits * (Len(a) - 1) + IntBitLen(a[Len(a)])

BIsOdd(a) == a # <<>> /\ a[1] % 2 = 1

\* number of trailing zero bits of a > 0
RECURSIVE IntTz(_)
IntTz(n) == IF n % 2 = 1 THEN 0 ELSE 1 + IntTz(n \div 2)

RECURSIVE BTz(_)
BTz(a) == IF a[1] = 0 THEN LimbBits + BTz(Tail(a)) ELSE IntTz(a[1])

----------------------------------------------------------------------------
(* float64 values: [neg, m, e] is (-1)^neg * m * 2^e with m odd, and       *)
(* [neg |-> FALSE, m |-> <<>>, e |-> 0] is 0.                              *)

MantBits == 53

FZero == [neg |-> FALSE, m |-> <<>>, e |-> 0]

\* the float with value (-1)^neg * m * 2^e, m of at most 53 bits
FCanon(neg, m, e) ==
    IF m = <<>> THEN FZero
    ELSE LET tz == BTz(m)
         IN  [neg |-> neg, m |-> BShr(m, tz), e |-> e + tz]

\* round (-1)^neg * (m + f) * 2^e to 53 bits, nearest and ties to even;
\* sticky says that the discarded fraction f, 0 <= f < 1, is not 0
\* (when sticky, m has more than 53 bits)
FRound(neg, m, e, sticky) ==
    LET len == BBitLen(m)
    IN  IF len <= MantBits THEN FCanon(neg, m, e)
        ELSE LET sh   == len - MantBits
                 q    == BShr(m, sh)
                 r    == BSub(m, BShl(q, sh))
                 half == BShl(<<1>>, sh - 1)
                 c    == BCmp(r, half)
                 up   == c > 0 \/ (c = 0 /\ (sticky \/ BIsOdd(q)))
             IN  FCanon(neg, IF up THEN BAdd(q, <<1>>) ELSE q, e + sh)

\* float64(n) for an integer n, |n| < 2^31
FFromInt(n) == FCanon(n < 0, BFromInt(IF n < 0 THEN -n ELSE n), 0)

\* -1, 0, 1 as |x| < |y|, |x| = |y|, |x| > |y|
FCmpAbs(x, y) ==
    IF x.m = <<>> THEN (IF y.m = <<>> THEN 0 ELSE -1)
    ELSE IF y.m = <<>> THEN 1
    ELSE LET tx == BBitLen(x.m) + x.e
             ty == BBitLen(y.m) + y.e
         IN  IF tx < ty THEN -1
             ELSE IF tx > ty THEN 1
             ELSE LET e == IF x.e < y.e THEN x.e ELSE y.e
                  IN  BCmp(BShl(x.m, x.e - e), BShl(y.m, y.e - e))

\* -1, 0, 1 as x < y, x = y, x > y
FCmp(x, y) ==
    IF x.neg /\ ~y.neg THEN (IF x.m = <<>> /\ y.m = <<>> THEN 0 ELSE -1)
    ELSE IF ~x.neg /\ y.neg THEN 1
    ELSE IF x.neg THEN FCmpAbs(y, x)
    ELSE FCmpAbs(x, y)

FLeq(x, y) == FCmp(x, y) <= 0
FLt(x, y) == FCmp(x, y) < 0

\* x + y, rounded
FAdd(x, y) ==
    IF x.m = <<>> THEN y
    ELSE IF y.m = <<>> THEN x
    ELSE LET e  == IF x.e < y.e THEN x.e ELSE y.e
             mx == BShl(x.m, x.e - e)
             my == BShl(y.m, y.e - e)
         IN  IF x.neg = y.neg THEN FRound(x.neg, BAdd(mx, my), e, FALSE)
             ELSE LET c == BCmp(mx, my)
                  IN  IF c = 0 THEN FZero
                      ELSE IF c > 0 THEN FRound(x.neg, BSub(mx, my), e, FALSE)
                      ELSE FRound(y.neg, BSub(my, mx), e, FALSE)

\* x * y, rounded
FMul(x, y) ==
    IF x.m = <<>> \/ y.m = <<>> THEN FZero
    ELSE FRound(x.neg # y.neg, BMul(x.m, y.m), x.e + y.e, FALSE)

\* float64(a) / float64(b), rounded, for integers a and b > 0 whose odd
\* part is below 2^15 (every difference of two breakpoints scored here);
\* the quotient is computed to at least DivGuard - 15 = 60 bits
DivGuard == 75

FDivInt(a, b) ==
    IF a = 0 THEN FZero
    ELSE LET tz  == IntTz(b)
             d   == b \div Pow2(tz)
             num == BShl(BFromInt(IF a < 0 THEN -a ELSE a), DivGuard)
         IN  FRound(a < 0, BDivSmall(num, d), -DivGuard - tz,
                    BModSmall(num, d) # 0)

\* x - y, rounded
FSub(x, y) == FAdd(x, [y EXCEPT !.neg = ~@])

\* x / float64(b), rounded, for a float x and an integer b > 0 whose odd
\* part is below 2^15; the quotient is computed to at least 60 bits
FDivBy(x, b) ==
    IF x.m = <<>> THEN FZero
    ELSE LET tz  == IntTz(b)
             d   == b \div Pow2(tz)
             num == BShl(x.m, DivGuard)
         IN  FRound(x.neg, BDivSmall(num, d), x.e - DivGuard - tz,
                    BModSmall(num, d) # 0)

\* Go's int(x): the integer part of x, towards zero
FTrunc(x) ==
    IF x.m = <<>> THEN 0
    ELSE LET n == IF x.e >= 0 THEN BToInt(BShl(x.m, x.e))
                  ELSE BToInt(BShr(x.m, -x.e))
         IN  IF x.neg THEN -n ELSE n

\* the float64 nearest to the decimal constant num/den of the source text
FConst(num, den) == FDivInt(num, den)

----------------------------------------------------------------------------
(* time.Duration: a signed 64-bit count of nanoseconds, modelled as sign   *)
(* and magnitude; multiplication wraps modulo 2^64 and division truncates  *)
(* toward zero, as Go's int64 arithmetic does.                             *)

Two63 == BShl(<<1>>, 63)
Two64 == BShl(<<1>>, 64)
MaxInt64 == BSub(Two63, <<1>>)

\* the int64 that holds the low 64 bits of the natural number b
Int64(b) ==
    LET low == BSub(b, BShl(BShr(b, 64), 64))
    IN  IF BCmp(low, Two63) < 0 THEN [neg |-> FALSE, m |-> low]
        ELSE [neg |-> TRUE, m |-> BSub(Two64, low)]

\* d * k for a Duration d >= 0 and an untyped constant 0 < k < Base
DurationMul(d, k) == Int64(BMulSmall(d.m, k))

\* d / k for an untyped constant 0 < k < Base
DurationDiv(d, k) ==
    LET q == BDivSmall(d.m, k) IN [neg |-> d.neg /\ q # <<>>, m |-> q]

Nanosecond == [neg |-> FALSE, m |-> <<1>>]
Second == [neg |-> FALSE, m |-> BMulSmall(BMulSmall(BFromInt(1000), 1000), 1000)]

\* n * time.Nanosecond and n * time.Second for 0 <= n < Base
Nanoseconds(n) == [neg |-> FALSE, m |-> BMulSmall(Nanosecond.m, n)]
Seconds(n) == [neg |-> FALSE, m |-> BMulSmall(Second.m, n)]

\* a + b of two Durations whose sum fits in an int64
DurationAdd(a, b) ==
    IF a.neg = b.neg THEN [neg |-> a.neg, m |-> BAdd(a.m, b.m)]
    ELSE IF BCmp(a.m, b.m) = 0 THEN [neg |-> FALSE, m |-> <<>>]
    ELSE IF BCmp(a.m, b.m) > 0 THEN [neg |-> a.neg, m |-> BSub(a.m, b.m)]
    ELSE [neg |-> b.neg, m |-> BSub(b.m, a.m)]

\* a <= b
DurationLeq(a, b) ==
    IF a.neg /\ ~b.neg THEN TRUE
    ELSE IF ~a.neg /\ b.neg THEN FALSE
    ELSE IF a.neg THEN BCmp(a.m, b.m) >= 0
    ELSE BCmp(a.m, b.m) <= 0

----------------------------------------------------------------------------
(* internal/report/report.go                                               *)

VARIABLES
    results,    \* types.Results: the measured rates
    summary,    \* Report.Summary
    verdict,    \* Report.Verdict
    pc,         \* how far the run is
    curve,      \* the breakpoints <<poor, marginal, good, excellent>> ...
    value,      \* ... and the value of the latest call of scoreMetric
    score,      \* what that call returned
    last,       \* value and score of the call before it
    config,     \* benchmark.Config: the three domain durations
    budget,     \* the time budgets computed from config so far
    trace,      \* the calls and returns of the probes, in order
    running,    \* the probe RunAll is inside, or "none"
    failed,     \* the probes that returned an error result
    probe,      \* the Benchmark function that is executing
    duration,   \* its duration argument, in nanoseconds
    at,         \* where it is: "setup", "start", "check", "work", "exit", ...
    phase,      \* the measurement loop it is in or about to enter
    inner,      \* the position in the inner for loop of an iteration
    clock,      \* what time.Since(start) would return
    count,      \* the success counter of each loop
    elapsed,    \* the elapsed time measured after each loop
    aux,        \* the other accumulators: bytes, allocations, misses, latency
    hist,       \* what happened in the current loop (history)
    result,     \* the result struct returned
    reports     \* the reports NewReport has produced so far (history)

\* the variables of the Runner
runVars == <<trace, running, failed>>

\* the variables of a probe
probeVars ==
    <<probe, duration, at, phase, inner, clock, count, elapsed, aux, hist,
      result>>

\* the variables of the time budget allocator, the Runner and the probes,
\* and the history of the reports
kernelVars == <<config, budget, runVars, probeVars, reports>>

vars == <<results, summary, verdict, pc, curve, value, score, last, kernelVars>>

----------------------------------------------------------------------------
(* internal/benchmark/config.go: the configurations and the time budgets   *)

Config(total) ==
    [CPUDuration |-> total, MemoryDuration |-> total, DiskDuration |-> total]

DefaultConfig == Config(Seconds(60))
QuickConfig == Config(Seconds(20))

\* Share rounding to the nearest nanosecond instead of truncating
ShareRounded(total, k) ==
    DurationDiv(DurationAdd(DurationMul(total, k), Nanoseconds(30)), 60)

\* total * k / 60
Share(total, k) == DurationDiv(DurationMul(total, k), 60)

GetCPUTimeBudget(c) ==
    LET total == c.CPUDuration
    IN  [Keccak256 |-> Share(total, 15),
         ECDSA     |-> Share(total, 20),
         BLS       |-> Share(total, 15),
         BN256     |-> Share(total, 10)]

\* GetMemoryTimeBudget with the shares of Trie and StateCache exchanged
GetMemoryTimeBudgetSwapped(c) ==
    LET total == c.MemoryDuration
    IN  [Trie       |-> Share(total, 20),
         Pool       |-> Share(total, 15),
         StateCache |-> Share(total, 25)]

GetMemoryTimeBudget(c) ==
    LET total == c.MemoryDuration
    IN  [Trie       |-> Share(total, 25),
         Pool       |-> Share(total, 15),
         StateCache |-> Share(total, 20)]

GetDiskTimeBudget(c) ==
    LET total == c.DiskDuration
    IN  [Sequential |-> Share(total, 20),
         Random     |-> Share(total, 25),
         Batch      |-> Share(total, 15)]

\* no budget computed yet
NoBudget == [CPU |-> <<>>, Memory |-> <<>>, Disk |-> <<>>]

\* the Runner has not started
RunnerIdle ==
    /\ trace = <<>>
    /\ running = "none"
    /\ failed = {}

\* no accumulator has counted anything, no signature is prepared, no file
\* is open or exists, no call is deferred, no state object is cached
NoAux ==
    [bytes |-> <<0, 0, 0, 0>>, alloc |-> 0, misses |-> 0, latency |-> 0,
     signed |-> FALSE, open |-> 0, files |-> {}, defers |-> <<>>,
     hits |-> 0, lookups |-> 0, unexpected |-> 0, addresses |-> <<>>,
     objects |-> <<>>,
     reuse |-> 0, memPool |-> {}, stPool |-> 0, made |-> 0, requested |-> 0,
     puts |-> 0, dropped |-> 0]

\* nothing has happened in the current loop
NoHist == [ops |-> 0, sinceCheck |-> 0, lastLatency |-> 0, time |-> 0]

\* no probe is executing
ProbeIdle ==
    /\ probe = "none"
    /\ duration = 0
    /\ at = "idle"
    /\ phase = 0
    /\ inner = 0
    /\ clock = 0
    /\ count = <<0, 0, 0, 0>>
    /\ elapsed = <<0, 0, 0, 0>>
    /\ aux = NoAux
    /\ hist = [loop |-> NoHist, attempts |-> <<0, 0, 0, 0>>,
               failures |-> <<0, 0, 0, 0>>]
    /\ result = <<>>

\* scoreMetric with the marginal band interpolated from poor
scoreMetricFromPoor(v, poor, marginal, good, excellent) ==
    IF v >= excellent THEN FFromInt(100)
    ELSE IF v >= good THEN
        FAdd(FFromInt(75), FDivInt(25 * (v - good), excellent - good))
    ELSE IF v >= marginal THEN
        FAdd(FFromInt(50), FDivInt(25 * (v - poor), good - marginal))
    ELSE IF v >= poor THEN
        FAdd(FFromInt(25), FDivInt(25 * (v - poor), marginal - poor))
    ELSE FDivInt(25 * v, poor)

\* scoreMetric with the good band starting from 50 instead of 75
scoreMetricLowGood(v, poor, marginal, good, excellent) ==
    IF v >= excellent THEN FFromInt(100)
    ELSE IF v >= good THEN
        FAdd(FFromInt(50), FDivInt(25 * (v - good), excellent - good))
    ELSE IF v >= marginal THEN
        FAdd(FFromInt(50), FDivInt(25 * (v - marginal), good - marginal))
    ELSE IF v >= poor THEN
        FAdd(FFromInt(25), FDivInt(25 * (v - poor), marginal - poor))
    ELSE FDivInt(25 * v, poor)

\* scoreMetric with the lowest band divided by marginal instead of poor
scoreMetricByMarginal(v, poor, marginal, good, excellent) ==
    IF v >= excellent THEN FFromInt(100)
    ELSE IF v >= good THEN
        FAdd(FFromInt(75), FDivInt(25 * (v - good), excellent - good))
    ELSE IF v >= marginal THEN
        FAdd(FFromInt(50), FDivInt(25 * (v - marginal), good - marginal))
    ELSE IF v >= poor THEN
        FAdd(FFromInt(25), FDivInt(25 * (v - poor), marginal - poor))
    ELSE FDivInt(25 * v, marginal)

\* The rates below are integers, which float64 holds exactly, so value-good
\* and 25*(value-good) are exact in the program as well and the only
\* roundings of scoreMetric are those of the division and of the addition.
scoreMetric(v, poor, marginal, good, excellent) ==
    IF v >= excellent THEN FFromInt(100)
    ELSE IF v >= good THEN
        FAdd(FFromInt(75), FDivInt(25 * (v - good), excellent - good))
    ELSE IF v >= marginal THEN
        FAdd(FFromInt(50), FDivInt(25 * (v - marginal), good - marginal))
    ELSE IF v >= poor THEN
        FAdd(FFromInt(25), FDivInt(25 * (v - poor), marginal - poor))
    ELSE FDivInt(25 * v, poor)

\* scoreMetric on a float64 value x >= 0 that need not be an integer
scoreMetric64(x, poor, marginal, good, excellent) ==
    IF FLeq(FFromInt(excellent), x) THEN FFromInt(100)
    ELSE IF FLeq(FFromInt(good), x) THEN
        FAdd(FFromInt(75),
             FDivBy(FMul(FFromInt(25), FSub(x, FFromInt(good))),
                    excellent - good))
    ELSE IF FLeq(FFromInt(marginal), x) THEN
        FAdd(FFromInt(50),
             FDivBy(FMul(FFromInt(25), FSub(x, FFromInt(marginal))),
                    good - marginal))
    ELSE IF FLeq(FFromInt(poor), x) THEN
        FAdd(FFromInt(25),
             FDivBy(FMul(FFromInt(25), FSub(x, FFromInt(poor))),
                    marginal - poor))
    ELSE FDivBy(FMul(FFromInt(25), x), poor)

\* the calibration curves <<poor, marginal, good, excellent>>
KeccakCurve == <<50000, 100000, 200000, 500000>>
\* the ECDSA curve with a marginal breakpoint below the advisory floor
ECDSACurveLow == <<250, 400, 1000, 2000>>

ECDSACurve == <<250, 500, 1000, 2000>>
BLSCurve == <<50, 100, 200, 500>>
BN256Curve == <<10, 25, 50, 100>>
TrieCurve == <<5000, 10000, 20000, 50000>>
PoolCurve == <<50000, 100000, 200000, 500000>>
CacheCurve == <<50000, 100000, 200000, 500000>>
SeqCurve == <<50, 100, 200, 400>>
RandomCurve == <<5000, 10000, 20000, 50000>>
BatchCurve == <<10, 25, 50, 100>>

scoreOn(v, c) == scoreMetric(v, c[1], c[2], c[3], c[4])

\* the metric scores, in the order in which each category adds them up
cpuMetricScores(cpu) ==
    << scoreOn(cpu.Keccak.HashesPerSecond, KeccakCurve),
       scoreOn(cpu.ECDSA.VerificationsPerSecond, ECDSACurve),
       scoreOn(cpu.BLS.VerificationsPerSecond, BLSCurve),
       scoreOn(cpu.BN256.PairingsPerSecond, BN256Curve) >>

memMetricScores(mem) ==
    << scoreOn(mem.Trie.InsertsPerSecond, TrieCurve),
       scoreOn(mem.Pool.AllocationsPerSecond + mem.Pool.ReusesPerSecond,
               PoolCurve),
       scoreOn(mem.StateCache.CacheHitsPerSecond, CacheCurve) >>

\* (write + read) / 2 is exact in float64; the rates drawn below are even
diskMetricScores(disk) ==
    << scoreOn((disk.Sequential.WriteSpeedMBps
                  + disk.Sequential.ReadSpeedMBps) \div 2, SeqCurve),
       scoreOn((disk.Random.ReadIOPS + disk.Random.WriteIOPS) \div 2,
               RandomCurve),
       scoreOn(disk.Batch.ThroughputMBps, BatchCurve) >>

\* CPUWeights with the BN256 pairing weighted 0.10 instead of 0.15
CPUWeightsLowPairing ==
    <<FConst(25, 100), FConst(35, 100), FConst(25, 100), FConst(10, 100)>>

\* the weights 0.25, 0.35, ... as float64 constants, in the same order
CPUWeights ==
    <<FConst(25, 100), FConst(35, 100), FConst(25, 100), FConst(15, 100)>>
MemoryWeights == <<FConst(40, 100), FConst(30, 100), FConst(30, 100)>>
DiskWeights == <<FConst(30, 100), FConst(45, 100), FConst(25, 100)>>

\* var score float64; score += s[1] * w[1]; ...; the float64 sum
RECURSIVE weightedSum(_, _, _)
weightedSum(s, w, n) ==
    IF n = 0 THEN FZero
    ELSE FAdd(weightedSum(s, w, n - 1), FMul(s[n], w[n]))

calculateCPUScore(cpu) ==
    FTrunc(weightedSum(cpuMetricScores(cpu), CPUWeights, 4))

calculateMemoryScore(mem) ==
    FTrunc(weightedSum(memMetricScores(mem), MemoryWeights, 3))

calculateDiskScore(disk) ==
    FTrunc(weightedSum(diskMetricScores(disk), DiskWeights, 3))

\* int(float64(cpuScore)*0.40 + float64(diskScore)*0.35
\*     + float64(memoryScore)*0.25)
\* the weights with memory weighing as much as disk
TotalWeightsHeavy == <<FConst(40, 100), FConst(35, 100), FConst(35, 100)>>

TotalWeights == <<FConst(40, 100), FConst(35, 100), FConst(25, 100)>>

totalScore(cpuScore, diskScore, memoryScore) ==
    FTrunc(FAdd(FAdd(FMul(FFromInt(cpuScore), TotalWeights[1]),
                     FMul(FFromInt(diskScore), TotalWeights[2])),
                FMul(FFromInt(memoryScore), TotalWeights[3])))

calculateSummary(r) ==
    LET cpuScore    == calculateCPUScore(r.CPU)
        memoryScore == calculateMemoryScore(r.Memory)
        diskScore   == calculateDiskScore(r.Disk)
    IN  [CPUScore    |-> cpuScore,
         MemoryScore |-> memoryScore,
         DiskScore   |-> diskScore,
         TotalScore  |-> totalScore(cpuScore, diskScore, memoryScore)]

\* readiness with the Ready tier starting above 80
readinessAbove80(s) ==
    IF s > 80 THEN <<"Ready", "Ready">>
    ELSE IF s >= 60 THEN <<"Marginal", "Ready">>
    ELSE IF s >= 40 THEN <<"Marginal", "Marginal">>
    ELSE <<"Unsuitable", "Marginal">>

\* the readiness labels <<ExecutionClient, ConsensusClient>> of a score
readiness(s) ==
    IF s >= 80 THEN <<"Ready", "Ready">>
    ELSE IF s >= 60 THEN <<"Marginal", "Ready">>
    ELSE IF s >= 40 THEN <<"Marginal", "Marginal">>
    ELSE <<"Unsuitable", "Marginal">>

\* baseline with a single recommendation for the hardware that is ready
baselineShort(s) ==
    IF s >= 80 THEN << "Your hardware meets Ethereum node requirements." >>
    ELSE << "Hardware is below recommended specifications.",
            "Initial sync will be slow (potentially weeks).",
            "Consider using an external execution client RPC." >>

\* the recommendations the switch on the score appends
baseline(s) ==
    IF s >= 80 THEN
        << "Your hardware meets Ethereum node requirements.",
           "Both Geth and Nimbus should run well on this system." >>
    ELSE IF s >= 60 THEN
        << "Consensus client (Nimbus) should work well.",
           "Execution client (Geth) may struggle during high network activity.",
           "Consider using checkpoint sync to reduce initial sync time." >>
    ELSE IF s >= 40 THEN
        << "Hardware is below recommended specifications.",
           "Initial sync will be slow (potentially weeks).",
           "Consider using an external execution client RPC." >>
    ELSE
        << "Hardware does not meet minimum requirements for execution client.",
           "Consider upgrading to NVMe storage.",
           "A more powerful single-board computer is recommended." >>

RandomAdvice == "Random I/O performance is low. NVMe SSD strongly recommended."
ECDSAAdvice ==
    "ECDSA verification is slow. This may cause transaction validation delays."
BLSAdvice == "BLS signature verification is slow. Consensus layer may lag."

\* weakAreas with the BLS advisory appended before the ECDSA one
weakAreasBLSFirst(r) ==
    (IF r.Disk.Random.ReadIOPS < 10000 THEN <<RandomAdvice>> ELSE <<>>)
    \o (IF r.CPU.BLS.VerificationsPerSecond < 100
        THEN <<BLSAdvice>> ELSE <<>>)
    \o (IF r.CPU.ECDSA.VerificationsPerSecond < 500
        THEN <<ECDSAAdvice>> ELSE <<>>)

\* the recommendations the three ifs on the weak areas append
weakAreas(r) ==
    (IF r.Disk.Random.ReadIOPS < 10000 THEN <<RandomAdvice>> ELSE <<>>)
    \o (IF r.CPU.ECDSA.VerificationsPerSecond < 500
        THEN <<ECDSAAdvice>> ELSE <<>>)
    \o (IF r.CPU.BLS.VerificationsPerSecond < 100
        THEN <<BLSAdvice>> ELSE <<>>)

determineVerdict(s, r) ==
    [OverallScore    |-> s,
     ExecutionClient |-> readiness(s)[1],
     ConsensusClient |-> readiness(s)[2],
     Recommendations |-> baseline(s) \o weakAreas(r)]

----------------------------------------------------------------------------
(* The measured rates.  Every rate is drawn from a few levels of its       *)
(* calibration curve: 0, a fifth of poor, marginal, two fifths of the way  *)
(* from good to excellent, excellent, and multiples of excellent.          *)

MaxLevel == 5

Levels == 0..MaxLevel

Rate(c, l) ==
    CASE l = 0 -> 0
      [] l = 1 -> c[1] \div 5
      [] l = 2 -> c[2]
      [] l = 3 -> c[3] + (2 * (c[4] - c[3])) \div 5
      [] OTHER -> (l - 3) * c[4]

CPUAt(k, e, b, n) ==
    [Keccak |-> [HashesPerSecond |-> Rate(KeccakCurve, k)],
     ECDSA  |-> [VerificationsPerSecond |-> Rate(ECDSACurve, e)],
     BLS    |-> [VerificationsPerSecond |-> Rate(BLSCurve, b)],
     BN256  |-> [PairingsPerSecond |-> Rate(BN256Curve, n)]]

MemoryAt(t, a, u, c) ==
    [Trie       |-> [InsertsPerSecond |-> Rate(TrieCurve, t)],
     Pool       |-> [AllocationsPerSecond |-> Rate(PoolCurve, a),
                     ReusesPerSecond      |-> Rate(PoolCurve, u)],
     StateCache |-> [CacheHitsPerSecond |-> Rate(CacheCurve, c)]]

DiskAt(sw, sr, rr, rw, b) ==
    [Sequential |-> [WriteSpeedMBps |-> Rate(SeqCurve, sw),
                     ReadSpeedMBps  |-> Rate(SeqCurve, sr)],
     Random     |-> [ReadIOPS  |-> Rate(RandomCurve, rr),
                     WriteIOPS |-> Rate(RandomCurve, rw)],
     Batch      |-> [ThroughputMBps |-> Rate(BatchCurve, b)]]

\* a fresh types.Results: every rate is 0
ZeroResults ==
    [CPU |-> CPUAt(0, 0, 0, 0), Memory |-> MemoryAt(0, 0, 0, 0),
     Disk |-> DiskAt(0, 0, 0, 0, 0)]

\* the results of a run: one category measured at every combination of
\* levels while the other two measured nothing (the batch probe as fast as
\* the sequential write), or a machine whose three categories all measured
\* something: ECDSA, Keccak and the memory probes at one level, BLS and
\* BN256 at a second, random reads at a third, every other disk rate at a
\* fourth
CPUSweep ==
    { [ZeroResults EXCEPT !.CPU = CPUAt(k, e, b, n)] :
        k \in Levels, e \in Levels, b \in Levels, n \in Levels }

MemorySweep ==
    { [ZeroResults EXCEPT !.Memory = MemoryAt(t, a, u, c)] :
        t \in Levels, a \in Levels, u \in Levels, c \in Levels }

DiskSweep ==
    { [ZeroResults EXCEPT !.Disk = DiskAt(sw, sr, rr, rw, sw)] :
        sw \in Levels, sr \in Levels, rr \in Levels, rw \in Levels }

Mixed ==
    { [CPU    |-> CPUAt(e, e, b, b),
       Memory |-> MemoryAt(e, e, 0, e),
       Disk   |-> DiskAt(w, w, r, w, w)] :
        e \in Levels, b \in Levels, r \in Levels, w \in Levels }

ResultsSet == CPUSweep \cup MemorySweep \cup DiskSweep \cup Mixed

ZeroSummary ==
    [CPUScore |-> 0, MemoryScore |-> 0, DiskScore |-> 0, TotalScore |-> 0]

ZeroVerdict ==
    [OverallScore |-> 0, ExecutionClient |-> "", ConsensusClient |-> "",
     Recommendations |-> <<>>]

\* Runner.RunAll returns the results of the ten probes
RunAll(r) ==
    /\ pc = "run"
    /\ results' = r
    /\ pc' = "measured"
    /\ UNCHANGED <<summary, verdict, curve, value, score, last, kernelVars>>

\* the Report struct: the results as NewReport received them, the Summary
\* and the Verdict
Report(r, s, v) == [Results |-> r, Summary |-> s, Verdict |-> v]

\* NewReport keeping the best total score of the reports before
NewReportCarrying ==
    /\ pc = "measured"
    /\ summary' =
          [calculateSummary(results) EXCEPT
             !.TotalScore =
                IF reports # <<>> /\ reports[Len(reports)].Summary.TotalScore > @
                THEN reports[Len(reports)].Summary.TotalScore ELSE @]
    /\ verdict' = determineVerdict(summary'.TotalScore, results)
    /\ pc' = "reported"
    /\ reports' = Append(reports, Report(results, summary', verdict'))
    /\ UNCHANGED <<results, curve, value, score, last, config, budget, runVars,
                   probeVars>>

\* NewReport passing the CPU score to determineVerdict
NewReportByCPU ==
    /\ pc = "measured"
    /\ summary' = calculateSummary(results)
    /\ verdict' = determineVerdict(summary'.CPUScore, results)
    /\ pc' = "reported"
    /\ reports' = Append(reports, Report(results, summary', verdict'))
    /\ UNCHANGED <<results, curve, value, score, last, config, budget, runVars,
                   probeVars>>

\* NewReport: report.Summary = calculateSummary(results), then
\* report.Verdict = determineVerdict(report.Summary.TotalScore, results)
NewReport ==
    /\ pc = "measured"
    /\ summary' = calculateSummary(results)
    /\ verdict' = determineVerdict(summary'.TotalScore, results)
    /\ pc' = "reported"
    /\ reports' = Append(reports, Report(results, summary', verdict'))
    /\ UNCHANGED <<results, curve, value, score, last, config, budget, runVars,
                   probeVars>>

Init ==
    /\ results = ZeroResults
    /\ summary = ZeroSummary
    /\ verdict = ZeroVerdict
    /\ pc = "run"
    /\ curve = KeccakCurve
    /\ value = 0
    /\ score = FZero
    /\ last = [value |-> 0, score |-> FZero]
    /\ config = DefaultConfig
    /\ budget = NoBudget
    /\ RunnerIdle
    /\ ProbeIdle
    /\ reports = <<>>

Next ==
    \/ \E r \in ResultsSet : RunAll(r)
    \/ NewReport

Spec == Init /\ [][Next]_vars

----------------------------------------------------------------------------
(* scoreMetric on its own: any strictly increasing breakpoints, any value, *)
(* negative ones included, called again and again on the same curve.       *)

MaxBreak == 8
MaxNeg == 2

Curves ==
    { c \in (1..MaxBreak) \X (1..MaxBreak) \X (1..MaxBreak) \X (1..MaxBreak) :
        c[1] < c[2] /\ c[2] < c[3] /\ c[3] < c[4] }

Values == (-MaxNeg)..(MaxBreak + 1)

ScoreMetric(v) ==
    /\ pc \in {"input", "scored"}
    /\ value' = v
    /\ score' = scoreMetric(v, curve[1], curve[2], curve[3], curve[4])
    /\ last' = IF pc = "scored" THEN [value |-> value, score |-> score]
               ELSE [value |-> v, score |-> score']
    /\ pc' = "scored"
    /\ UNCHANGED <<results, summary, verdict, curve, kernelVars>>

InitScore ==
    /\ results = ZeroResults
    /\ summary = ZeroSummary
    /\ verdict = ZeroVerdict
    /\ pc = "input"
    /\ curve \in Curves
    /\ value = 0
    /\ score = FZero
    /\ last = [value |-> 0, score |-> FZero]
    /\ config = DefaultConfig
    /\ budget = NoBudget
    /\ RunnerIdle
    /\ ProbeIdle
    /\ reports = <<>>

NextScore == \E v \in Values : ScoreMetric(v)

SpecScore == InitScore /\ [][NextScore]_vars

----------------------------------------------------------------------------
(* Properties of scoreMetric, under SpecScore.                             *)

\* C1: at value = poor, marginal, good and excellent scoreMetric returns
\* exactly 25, 50, 75 and 100, whatever the strictly increasing breakpoints.
C1_BoundaryExact ==
    pc = "scored" =>
        /\ value = curve[1] => score = FFromInt(25)
        /\ value = curve[2] => score = FFromInt(50)
        /\ value = curve[3] => score = FFromInt(75)
        /\ value = curve[4] => score = FFromInt(100)

\* a call at the marginal breakpoint of a curve whose bands are wider than
\* one unit has returned 50
C1_Witness ==
    /\ pc = "scored"
    /\ value = curve[2]
    /\ curve[2] > curve[1] + 1
    /\ curve[3] > curve[2] + 1
    /\ score = FFromInt(50)

\* C2: of two calls on the same curve, the one with the smaller value never
\* returns the larger score.
C2_Monotone ==
    pc = "scored" =>
        /\ last.value < value => FLeq(last.score, score)
        /\ value < last.value => FLeq(score, last.score)

\* two successive calls whose values lie on the two sides of the good
\* breakpoint, in two different bands
C2_Witness ==
    /\ pc = "scored"
    /\ last.value < curve[3]
    /\ last.value > curve[2]
    /\ value >= curve[3]
    /\ value < curve[4]
    /\ FLt(last.score, score)

\* C3: a negative value is scored exactly 0, and every score lies in
\* [0, 100].
C3_ClampedToRange ==
    pc = "scored" =>
        /\ value < 0 => score = FZero
        /\ FLeq(FZero, score)
        /\ FLeq(score, FFromInt(100))

\* floor of the linear interpolation from lo (at a) to lo + 25 (at b),
\* at v, in exact integer arithmetic
InterpolatedFloor(v, a, b, lo) == (lo * (b - a) + 25 * (v - a)) \div (b - a)

----------------------------------------------------------------------------
(* Properties of the report, under Spec.                                   *)

\* the weights of the source text, in hundredths
CPUPercent == <<25, 35, 25, 15>>
MemoryPercent == <<40, 30, 30>>
DiskPercent == <<30, 45, 25>>

RECURSIVE SumTo(_, _)
SumTo(w, n) == IF n = 0 THEN 0 ELSE w[n] + SumTo(w, n - 1)

(* The same scores in exact arithmetic: a rational is <<n, d>>, d > 0, in  *)
(* lowest terms.                                                           *)

RECURSIVE Gcd(_, _)
Gcd(a, b) == IF b = 0 THEN a ELSE Gcd(b, a % b)

RNorm(n, d) == LET g == Gcd(IF n < 0 THEN -n ELSE n, d) IN <<n \div g, d \div g>>

RAdd(x, y) == RNorm(x[1] * y[2] + y[1] * x[2], x[2] * y[2])

\* the score of the value v >= 0 on the curve c as the interpolation formulas
\* of the four bands define it
ExactScore(v, c) ==
    IF v >= c[4] THEN <<100, 1>>
    ELSE IF v >= c[3] THEN RNorm(75 * (c[4] - c[3]) + 25 * (v - c[3]), c[4] - c[3])
    ELSE IF v >= c[2] THEN RNorm(50 * (c[3] - c[2]) + 25 * (v - c[2]), c[3] - c[2])
    ELSE IF v >= c[1] THEN RNorm(25 * (c[2] - c[1]) + 25 * (v - c[1]), c[2] - c[1])
    ELSE RNorm(25 * v, c[1])

\* the values scored in each category
cpuValues(cpu) ==
    << cpu.Keccak.HashesPerSecond, cpu.ECDSA.VerificationsPerSecond,
       cpu.BLS.VerificationsPerSecond, cpu.BN256.PairingsPerSecond >>

memValues(mem) ==
    << mem.Trie.InsertsPerSecond,
       mem.Pool.AllocationsPerSecond + mem.Pool.ReusesPerSecond,
       mem.StateCache.CacheHitsPerSecond >>

diskValues(disk) ==
    << (disk.Sequential.WriteSpeedMBps + disk.Sequential.ReadSpeedMBps) \div 2,
       (disk.Random.ReadIOPS + disk.Random.WriteIOPS) \div 2,
       disk.Batch.ThroughputMBps >>

CPUCurves == <<KeccakCurve, ECDSACurve, BLSCurve, BN256Curve>>
MemoryCurves == <<TrieCurve, PoolCurve, CacheCurve>>
DiskCurves == <<SeqCurve, RandomCurve, BatchCurve>>

\* w[1]*score(v[1]) + ... + w[n]*score(v[n]) over 100, leaving out the
\* metrics in skip
RECURSIVE ExactWeightedSum(_, _, _, _, _)
ExactWeightedSum(v, c, w, n, skip) ==
    IF n = 0 THEN <<0, 1>>
    ELSE LET r == ExactScore(v[n], c[n])
         IN  RAdd(ExactWeightedSum(v, c, w, n - 1, skip),
                  IF n \in skip THEN <<0, 1>> ELSE RNorm(w[n] * r[1], 100 * r[2]))

ExactWeightedFloor(v, c, w, n, skip) ==
    LET r == ExactWeightedSum(v, c, w, n, skip) IN r[1] \div r[2]

\* C5: each category score is the truncated weighted sum of its metric
\* scores, with weights 0.25/0.35/0.25/0.15 (CPU), 0.40/0.30/0.30 (memory)
\* and 0.30/0.45/0.25 (disk) that sum to 1, and is an integer in [0, 100].
C5_CategoryScores ==
    /\ CPUWeights = [i \in 1..4 |-> FConst(CPUPercent[i], 100)]
    /\ MemoryWeights = [i \in 1..3 |-> FConst(MemoryPercent[i], 100)]
    /\ DiskWeights = [i \in 1..3 |-> FConst(DiskPercent[i], 100)]
    /\ SumTo(CPUPercent, 4) = 100
    /\ SumTo(MemoryPercent, 3) = 100
    /\ SumTo(DiskPercent, 3) = 100
    /\ pc = "reported" =>
        /\ \A i \in 1..4 :
              FLeq(FZero, cpuMetricScores(results.CPU)[i])
              /\ FLeq(cpuMetricScores(results.CPU)[i], FFromInt(100))
        /\ summary.CPUScore =
              ExactWeightedFloor(cpuValues(results.CPU), CPUCurves,
                                 CPUPercent, 4, {})
        /\ summary.MemoryScore =
              ExactWeightedFloor(memValues(results.Memory), MemoryCurves,
                                 MemoryPercent, 3, {})
        /\ summary.DiskScore =
              ExactWeightedFloor(diskValues(results.Disk), DiskCurves,
                                 DiskPercent, 3, {})
        /\ summary.CPUScore \in 0..100
        /\ summary.MemoryScore \in 0..100
        /\ summary.DiskScore \in 0..100

\* C6: the overall score is floor(0.40*cpu + 0.35*disk + 0.25*memory) and
\* lies in [0, 100].
C6_OverallScore ==
    pc = "reported" =>
        /\ summary.TotalScore =
              (40 * summary.CPUScore + 35 * summary.DiskScore
                 + 25 * summary.MemoryScore) \div 100
        /\ summary.TotalScore \in 0..100

\* C7: an overall score of 80 or more is Ready/Ready, 60..79 is
\* Marginal/Ready, 40..59 is Marginal/Marginal and less than 40 is
\* Unsuitable/Marginal.
C7_Tiers ==
    pc = "reported" =>
        LET s == verdict.OverallScore
            labels == <<verdict.ExecutionClient, verdict.ConsensusClient>>
        IN  /\ s >= 80 => labels = <<"Ready", "Ready">>
            /\ (60 <= s /\ s <= 79) => labels = <<"Marginal", "Ready">>
            /\ (40 <= s /\ s <= 59) => labels = <<"Marginal", "Marginal">>
            /\ s < 40 => labels = <<"Unsuitable", "Marginal">>

\* a report whose overall score is 79, the highest that is not Ready
C7_Witness ==
    /\ pc = "reported"
    /\ verdict.OverallScore = 79
    /\ verdict.ExecutionClient = "Marginal"
    /\ verdict.ConsensusClient = "Ready"

Advisories == {RandomAdvice, ECDSAAdvice, BLSAdvice}

\* the positions of advisory a in the list recs
Positions(recs, a) == { i \in 1..Len(recs) : recs[i] = a }

\* C8: the recommendations are the baseline ones of the tier followed by
\* the conditional ones in the order random-I/O, ECDSA, BLS, each present
\* exactly when its rate is below its floor (ReadIOPS < 10000, ECDSA
\* verifications/s < 500, BLS verifications/s < 100), once, in every tier.
C8_Advisories ==
    pc = "reported" =>
        LET recs == verdict.Recommendations
            nb   == IF verdict.ExecutionClient = "Ready" THEN 2 ELSE 3
            low  == [a \in Advisories |->
                       CASE a = RandomAdvice ->
                              results.Disk.Random.ReadIOPS < 10000
                         [] a = ECDSAAdvice ->
                              results.CPU.ECDSA.VerificationsPerSecond < 500
                         [] a = BLSAdvice ->
                              results.CPU.BLS.VerificationsPerSecond < 100]
        IN  /\ Len(recs) >= nb
            /\ \A i \in 1..nb : recs[i] \notin Advisories
            /\ \A i \in (nb + 1)..Len(recs) : recs[i] \in Advisories
            /\ \A a \in Advisories :
                  Cardinality(Positions(recs, a)) = IF low[a] THEN 1 ELSE 0
            /\ \A i \in Positions(recs, RandomAdvice), j \in Positions(recs, ECDSAAdvice) : i < j
            /\ \A i \in Positions(recs, ECDSAAdvice), j \in Positions(recs, BLSAdvice) : i < j
            /\ \A i \in Positions(recs, RandomAdvice), j \in Positions(recs, BLSAdvice) : i < j

\* a Ready/Ready report with the random-I/O advisory, and only that one,
\* after its two baseline recommendations
C8_Witness ==
    /\ pc = "reported"
    /\ verdict.ExecutionClient = "Ready"
    /\ Len(verdict.Recommendations) = 3
    /\ verdict.Recommendations[3] = RandomAdvice

\* the four CPU rates are at or above their excellent breakpoints and the
\* memory and disk scores are 100
AllExcellent ==
    /\ pc = "reported"
    /\ results.CPU.Keccak.HashesPerSecond >= KeccakCurve[4]
    /\ results.CPU.ECDSA.VerificationsPerSecond >= ECDSACurve[4]
    /\ results.CPU.BLS.VerificationsPerSecond >= BLSCurve[4]
    /\ results.CPU.BN256.PairingsPerSecond >= BN256Curve[4]
    /\ summary.MemoryScore = 100
    /\ summary.DiskScore = 100

\* C9 as claimed: then the CPU score and the overall score are 100, the
\* verdict is Ready/Ready and no conditional advisory is appended.
C9_Original ==
    AllExcellent =>
        /\ summary.CPUScore = 100
        /\ summary.TotalScore = 100
        /\ verdict.ExecutionClient = "Ready"
        /\ verdict.ConsensusClient = "Ready"
        /\ \A i \in 1..Len(verdict.Recommendations) :
              verdict.Recommendations[i] \notin Advisories

\* C9, amended: the same, provided the random ReadIOPS is at least 10000
\* (a disk score of 100 bounds only the mean of ReadIOPS and WriteIOPS).
C9_Amended ==
    (AllExcellent /\ results.Disk.Random.ReadIOPS >= 10000) =>
        /\ summary.CPUScore = 100
        /\ summary.TotalScore = 100
        /\ verdict.ExecutionClient = "Ready"
        /\ verdict.ConsensusClient = "Ready"
        /\ verdict.Recommendations = baseline(100)

C9_Witness ==
    /\ AllExcellent
    /\ results.Disk.Random.ReadIOPS >= 10000
    /\ results.CPU.Keccak.HashesPerSecond > KeccakCurve[4]
    /\ summary.TotalScore = 100
    /\ Len(verdict.Recommendations) = 2

\* C10: a metric whose rate is 0 is scored 0, the category score is then
\* the truncated weighted sum of the remaining metrics (65 for the CPU when
\* only the ECDSA rate is 0 and the other three are excellent), and the
\* Summary and the Verdict are produced all the same.
C10_ZeroRate ==
    pc = "reported" =>
        LET cr == cpuValues(results.CPU)
            mr == memValues(results.Memory)
            dr == diskValues(results.Disk)
        IN  /\ \A i \in 1..4 : cr[i] = 0 =>
                  /\ cpuMetricScores(results.CPU)[i] = FZero
                  /\ summary.CPUScore =
                        ExactWeightedFloor(cr, CPUCurves, CPUPercent, 4, {i})
            /\ \A i \in 1..3 : mr[i] = 0 =>
                  /\ memMetricScores(results.Memory)[i] = FZero
                  /\ summary.MemoryScore =
                        ExactWeightedFloor(mr, MemoryCurves, MemoryPercent,
                                           3, {i})
            /\ \A i \in 1..3 : dr[i] = 0 =>
                  /\ diskMetricScores(results.Disk)[i] = FZero
                  /\ summary.DiskScore =
                        ExactWeightedFloor(dr, DiskCurves, DiskPercent, 3, {i})
            /\ (cr[2] = 0 /\ cr[1] >= KeccakCurve[4] /\ cr[3] >= BLSCurve[4]
                  /\ cr[4] >= BN256Curve[4]) => summary.CPUScore = 65
            /\ verdict.OverallScore = summary.TotalScore
            /\ verdict.ExecutionClient \in {"Ready", "Marginal", "Unsuitable"}

----------------------------------------------------------------------------
(* The time budget allocator on its own: a Config whose three durations    *)
(* are one total, and the three Get...TimeBudget calls in any order.       *)

MaxNanos == 24

\* totals of a few nanoseconds, the two profiles, and totals around the
\* largest ones whose product with 10, 15, 20 and 25 fits in an int64
SmallTotals == { Nanoseconds(n) : n \in 0..MaxNanos }
ProfileTotals == {Seconds(20), Seconds(60)}
HugeTotals ==
    { [neg |-> FALSE, m |-> BAdd(BDivSmall(MaxInt64, k), BFromInt(j))] :
        k \in {10, 15, 20, 25}, j \in 0..1 }
    \cup {[neg |-> FALSE, m |-> MaxInt64]}
Totals == SmallTotals \cup ProfileTotals \cup HugeTotals

BudgetCPU ==
    /\ pc = "config"
    /\ budget' = [budget EXCEPT !.CPU = GetCPUTimeBudget(config)]
    /\ UNCHANGED <<results, summary, verdict, pc, curve, value, score, last,
                   config, runVars, probeVars, reports>>

BudgetMemory ==
    /\ pc = "config"
    /\ budget' = [budget EXCEPT !.Memory = GetMemoryTimeBudget(config)]
    /\ UNCHANGED <<results, summary, verdict, pc, curve, value, score, last,
                   config, runVars, probeVars, reports>>

BudgetDisk ==
    /\ pc = "config"
    /\ budget' = [budget EXCEPT !.Disk = GetDiskTimeBudget(config)]
    /\ UNCHANGED <<results, summary, verdict, pc, curve, value, score, last,
                   config, runVars, probeVars, reports>>

InitBudget ==
    /\ results = ZeroResults
    /\ summary = ZeroSummary
    /\ verdict = ZeroVerdict
    /\ pc = "config"
    /\ curve = KeccakCurve
    /\ value = 0
    /\ score = FZero
    /\ last = [value |-> 0, score |-> FZero]
    /\ config \in { Config(t) : t \in Totals }
    /\ budget = NoBudget
    /\ RunnerIdle
    /\ ProbeIdle
    /\ reports = <<>>

NextBudget == BudgetCPU \/ BudgetMemory \/ BudgetDisk

SpecBudget == InitBudget /\ [][NextBudget]_vars

----------------------------------------------------------------------------
(* Claims about the time budget allocator                                  *)

\* the sub-durations of a budget, in the order the probes run
CPUParts(b) == <<b.Keccak256, b.ECDSA, b.BLS, b.BN256>>
MemoryParts(b) == <<b.Trie, b.Pool, b.StateCache>>
DiskParts(b) == <<b.Sequential, b.Random, b.Batch>>

RECURSIVE DurationSum(_, _)
DurationSum(parts, n) ==
    IF n = 0 THEN Nanoseconds(0)
    ELSE DurationAdd(DurationSum(parts, n - 1), parts[n])

\* the domains whose budget has been computed, with the total, the
\* sub-durations and the sixtieths of each
Computed ==
    (IF budget.CPU = <<>> THEN {} ELSE
        {[total |-> config.CPUDuration, parts |-> CPUParts(budget.CPU),
          sixtieths |-> <<15, 20, 15, 10>>]})
    \cup (IF budget.Memory = <<>> THEN {} ELSE
        {[total |-> config.MemoryDuration, parts |-> MemoryParts(budget.Memory),
          sixtieths |-> <<25, 15, 20>>]})
    \cup (IF budget.Disk = <<>> THEN {} ELSE
        {[total |-> config.DiskDuration, parts |-> DiskParts(budget.Disk),
          sixtieths |-> <<20, 25, 15>>]})

\* C11: with the default profile (60 s per domain) the budgets are Keccak
\* 15 s, ECDSA 20 s, BLS 15 s, BN256 10 s; Trie 25 s, Pool 15 s, StateCache
\* 20 s; Sequential 20 s, Random 25 s, Batch 15 s, exactly.
C11_DefaultBudget ==
    config = DefaultConfig =>
        /\ budget.CPU # <<>> =>
              CPUParts(budget.CPU) =
                 <<Seconds(15), Seconds(20), Seconds(15), Seconds(10)>>
        /\ budget.Memory # <<>> =>
              MemoryParts(budget.Memory) =
                 <<Seconds(25), Seconds(15), Seconds(20)>>
        /\ budget.Disk # <<>> =>
              DiskParts(budget.Disk) =
                 <<Seconds(20), Seconds(25), Seconds(15)>>

\* the three budgets of the default profile have been computed
C11_Witness ==
    /\ config = DefaultConfig
    /\ budget.CPU # <<>> /\ budget.Memory # <<>> /\ budget.Disk # <<>>
    /\ budget.Memory.Trie = Seconds(25)

\* C12 as claimed: for every domain total, the sub-durations of the
\* domain's probes sum to the total.
C12_Original ==
    \A d \in Computed : DurationSum(d.parts, Len(d.parts)) = d.total

\* C12, amended: in the default 60 s profile the sub-durations of each
\* domain sum to the total; in the quick 20 s profile they sum to one
\* nanosecond less than the total.
C12_Amended ==
    \A d \in Computed :
        LET sum == DurationSum(d.parts, Len(d.parts))
        IN  /\ config = DefaultConfig => sum = d.total
            /\ config = QuickConfig =>
                  DurationAdd(sum, Nanoseconds(1)) = d.total

\* the three budgets of the quick profile have been computed
C12_Witness ==
    /\ config = QuickConfig
    /\ Cardinality(Computed) = 3

\* C13: for every total >= 0 each sub-duration is floor(total * k / 60),
\* lies between 0 and the total, the sum of a domain's sub-durations is at
\* most the total and the residual is smaller than the number of probes;
\* the quick CPU budget is 5 s, 6.666666666 s, 5 s, 3.333333333 s.
C13_Truncated ==
    /\ \A d \in Computed :
          LET n   == Len(d.parts)
              sum == DurationSum(d.parts, n)
          IN  /\ \A i \in 1..n :
                    /\ d.parts[i] =
                          [neg |-> FALSE,
                           m |-> BDivSmall(BMulSmall(d.total.m, d.sixtieths[i]),
                                           60)]
                    /\ DurationLeq(Nanoseconds(0), d.parts[i])
                    /\ DurationLeq(d.parts[i], d.total)
              /\ DurationLeq(sum, d.total)
              /\ ~DurationLeq(DurationAdd(sum, Nanoseconds(n)), d.total)
    /\ (config = QuickConfig /\ budget.CPU # <<>>) =>
          CPUParts(budget.CPU) =
             << Seconds(5),
                [neg |-> FALSE, m |-> BDivSmall(Seconds(20).m, 3)],
                Seconds(5),
                [neg |-> FALSE, m |-> BDivSmall(Seconds(10).m, 3)] >>

----------------------------------------------------------------------------
(* internal/benchmark/config.go, Runner.RunAll: the ten probes are called  *)
(* one after another; a call is a step and its return is a step.  What a   *)
(* probe returns is drawn from the results it can produce: the rates it    *)
(* measured or, after a failed setup, its error result.                    *)

\* the calls of runCPUBenchmarks, runMemoryBenchmarks and runDiskBenchmarks
\* in program order, with a changed order first
ProbeOrderDiskFirst ==
    << "Sequential", "Random", "Batch", "Keccak", "ECDSA", "BLS", "BN256",
       "Trie", "Pool", "StateCache" >>

ProbeOrder ==
    << "Keccak", "ECDSA", "BLS", "BN256", "Trie", "Pool", "StateCache",
       "Sequential", "Random", "Batch" >>

\* the level of a rate that a probe measured
Measured == 3

\* what each probe can return: result is the part of its result struct that
\* the report reads, error tells that Rating starts with "Error"
Returns(p) ==
    CASE p = "Keccak" ->
           { [result |-> [HashesPerSecond |-> Rate(KeccakCurve, l)],
              error |-> FALSE] : l \in {0, Measured} }
      [] p = "ECDSA" ->
           { [result |-> [VerificationsPerSecond |-> 0], error |-> TRUE],
             [result |-> [VerificationsPerSecond |->
                             Rate(ECDSACurve, Measured)],
              error |-> FALSE] }
      [] p = "BLS" ->
           { [result |-> [VerificationsPerSecond |-> Rate(BLSCurve, Measured)],
              error |-> FALSE] }
      [] p = "BN256" ->
           { [result |-> [PairingsPerSecond |-> 0], error |-> TRUE],
             [result |-> [PairingsPerSecond |-> Rate(BN256Curve, Measured)],
              error |-> FALSE] }
      [] p = "Trie" ->
           { [result |-> [InsertsPerSecond |-> Rate(TrieCurve, Measured)],
              error |-> FALSE] }
      [] p = "Pool" ->
           { [result |-> [AllocationsPerSecond |-> Rate(PoolCurve, 2),
                          ReusesPerSecond |-> Rate(PoolCurve, Measured)],
              error |-> FALSE] }
      [] p = "StateCache" ->
           { [result |-> [CacheHitsPerSecond |-> Rate(CacheCurve, Measured)],
              error |-> FALSE] }
      [] p = "Sequential" ->
           { \* the test file could not be created
             [result |-> [WriteSpeedMBps |-> 0, ReadSpeedMBps |-> 0],
              error |-> TRUE],
             \* it could not be reopened for the read phase
             [result |-> [WriteSpeedMBps |-> Rate(SeqCurve, Measured),
                          ReadSpeedMBps |-> 0],
              error |-> TRUE],
             [result |-> [WriteSpeedMBps |-> Rate(SeqCurve, Measured),
                          ReadSpeedMBps |-> Rate(SeqCurve, Measured)],
              error |-> FALSE] }
      [] p = "Random" ->
           { [result |-> [ReadIOPS |-> 0, WriteIOPS |-> 0], error |-> TRUE],
             [result |-> [ReadIOPS |-> Rate(RandomCurve, Measured),
                          WriteIOPS |-> Rate(RandomCurve, Measured)],
              error |-> FALSE] }
      [] p = "Batch" ->
           { [result |-> [ThroughputMBps |-> 0], error |-> TRUE],
             [result |-> [ThroughputMBps |-> Rate(BatchCurve, Measured)],
              error |-> FALSE] }
      [] OTHER -> {}

\* results.CPU.Keccak = r, ...
Store(res, p, r) ==
    CASE p = "Keccak"     -> [res EXCEPT !.CPU.Keccak = r]
      [] p = "ECDSA"      -> [res EXCEPT !.CPU.ECDSA = r]
      [] p = "BLS"        -> [res EXCEPT !.CPU.BLS = r]
      [] p = "BN256"      -> [res EXCEPT !.CPU.BN256 = r]
      [] p = "Trie"       -> [res EXCEPT !.Memory.Trie = r]
      [] p = "Pool"       -> [res EXCEPT !.Memory.Pool = r]
      [] p = "StateCache" -> [res EXCEPT !.Memory.StateCache = r]
      [] p = "Sequential" -> [res EXCEPT !.Disk.Sequential = r]
      [] p = "Random"     -> [res EXCEPT !.Disk.Random = r]
      [] p = "Batch"      -> [res EXCEPT !.Disk.Batch = r]

\* how many probes have returned
Returned == Len(trace) \div 2

\* the log line and the call of the next probe; the first probe of a
\* domain is preceded by the computation of the domain's budget
StartProbe ==
    /\ pc = "probing"
    /\ running = "none"
    /\ Returned < Len(ProbeOrder)
    /\ LET p == ProbeOrder[Returned + 1]
       IN  /\ running' = p
           /\ trace' = Append(trace, <<"start", p>>)
           /\ budget' =
                 CASE p = "Keccak" ->
                        [budget EXCEPT !.CPU = GetCPUTimeBudget(config)]
                   [] p = "Trie" ->
                        [budget EXCEPT !.Memory = GetMemoryTimeBudget(config)]
                   [] p = "Sequential" ->
                        [budget EXCEPT !.Disk = GetDiskTimeBudget(config)]
                   [] OTHER -> budget
    /\ UNCHANGED <<results, summary, verdict, pc, curve, value, score, last,
                   config, failed, probeVars, reports>>

\* the probe returns o and its result is stored; RunAll returns after the
\* last probe
ReturnProbe(o) ==
    /\ pc = "probing"
    /\ running # "none"
    /\ results' = Store(results, running, o.result)
    /\ failed' = IF o.error THEN failed \cup {running} ELSE failed
    /\ trace' = Append(trace, <<"return", running>>)
    /\ running' = "none"
    /\ pc' = IF Returned + 1 = Len(ProbeOrder) THEN "measured" ELSE "probing"
    /\ UNCHANGED <<summary, verdict, curve, value, score, last, config, budget,
                   probeVars, reports>>

InitRun ==
    /\ results = ZeroResults
    /\ summary = ZeroSummary
    /\ verdict = ZeroVerdict
    /\ pc = "probing"
    /\ curve = KeccakCurve
    /\ value = 0
    /\ score = FZero
    /\ last = [value |-> 0, score |-> FZero]
    /\ config \in {DefaultConfig, QuickConfig}
    /\ budget = NoBudget
    /\ RunnerIdle
    /\ ProbeIdle
    /\ reports = <<>>

NextRun ==
    \/ StartProbe
    \/ \E o \in Returns(running) : ReturnProbe(o)
    \/ NewReport

SpecRun == InitRun /\ [][NextRun]_vars

----------------------------------------------------------------------------
(* Claims about the Runner                                                 *)

\* the calls and returns of a whole run in the declared order
DeclaredCalls ==
    << <<"start", "Keccak">>,     <<"return", "Keccak">>,
       <<"start", "ECDSA">>,      <<"return", "ECDSA">>,
       <<"start", "BLS">>,        <<"return", "BLS">>,
       <<"start", "BN256">>,      <<"return", "BN256">>,
       <<"start", "Trie">>,       <<"return", "Trie">>,
       <<"start", "Pool">>,       <<"return", "Pool">>,
       <<"start", "StateCache">>, <<"return", "StateCache">>,
       <<"start", "Sequential">>, <<"return", "Sequential">>,
       <<"start", "Random">>,     <<"return", "Random">>,
       <<"start", "Batch">>,      <<"return", "Batch">> >>

\* C14: RunAll runs the ten probes one after another, each once, in the
\* order Keccak, ECDSA, BLS, BN256, Trie, Pool, StateCache, Sequential,
\* Random, Batch: a probe starts only after the previous one has returned
\* (so the CPU probes finish before the memory probes and these before the
\* disk probes), and RunAll returns after all ten.
C14_SequentialOrder ==
    /\ Len(trace) <= Len(DeclaredCalls)
    /\ trace = SubSeq(DeclaredCalls, 1, Len(trace))
    /\ running # "none" <=> Len(trace) % 2 = 1
    /\ pc \in {"measured", "reported"} => trace = DeclaredCalls

\* RunAll has returned with a disk probe's error result among its results
C14_Witness ==
    /\ pc = "measured"
    /\ Len(trace) = 20
    /\ "Random" \in failed

\* the zero value of the part of a probe's result that the report reads
ZeroResult(p) ==
    CASE p = "Keccak"     -> ZeroResults.CPU.Keccak
      [] p = "ECDSA"      -> ZeroResults.CPU.ECDSA
      [] p = "BLS"        -> ZeroResults.CPU.BLS
      [] p = "BN256"      -> ZeroResults.CPU.BN256
      [] p = "Trie"       -> ZeroResults.Memory.Trie
      [] p = "Pool"       -> ZeroResults.Memory.Pool
      [] p = "StateCache" -> ZeroResults.Memory.StateCache
      [] p = "Sequential" -> ZeroResults.Disk.Sequential
      [] p = "Random"     -> ZeroResults.Disk.Random
      [] p = "Batch"      -> ZeroResults.Disk.Batch

\* res with every rate of the first n probes that are in ps set to 0
RECURSIVE WithZeroRates(_, _, _)
WithZeroRates(res, ps, n) ==
    IF n = 0 THEN res
    ELSE LET rest == WithZeroRates(res, ps, n - 1)
             p    == DeclaredCalls[2 * n][2]
         IN  IF p \in ps THEN Store(rest, p, ZeroResult(p)) ELSE rest

\* C19: a setup failure never aborts the run: every later probe is still
\* executed, and the Summary and the Verdict are those of the results with
\* every rate of the failed probes at 0.
C19_FailureAbsorbed ==
    /\ (failed # {} /\ pc = "probing" /\ running = "none") =>
          Returned < Len(ProbeOrder)
    /\ pc = "reported" =>
          \A zeroed \in {WithZeroRates(results, failed, 10)} :
              /\ trace = DeclaredCalls
              /\ summary = calculateSummary(zeroed)
              /\ verdict = determineVerdict(summary.TotalScore, zeroed)

----------------------------------------------------------------------------
(* The probes (internal/cpu, internal/memory, internal/disk): what a probe *)
(* reports.  A reported float64 is modelled by its exact value: NaN, +Inf  *)
(* or the quotient n/d of two naturals; rounding is left out, division by  *)
(* zero is not: x/0 is +Inf for x > 0 and 0/0 is NaN, as in Go.  Rates     *)
(* are kept per nanosecond: elapsed.Seconds() is elapsed/10^9, and the     *)
(* factor 10^9 is applied where a rate is compared with a threshold.       *)

NaN == [k |-> "NaN"]
PosInf == [k |-> "Inf"]
Num(n, d) == LET r == RNorm(n, d) IN [k |-> "num", n |-> r[1], d |-> r[2]]
Zero == Num(0, 1)

\* float64(n) / float64(d) for naturals n and d
Quo(n, d) == IF d # 0 THEN Num(n, d) ELSE IF n = 0 THEN NaN ELSE PosInf

\* x / c for a constant c > 0
Over(x, c) == IF x.k = "num" THEN Num(x.n, x.d * c) ELSE x

\* x*a/c + y*b/c for constants a, b, c > 0
Mix(x, a, y, b, c) ==
    IF x.k = "NaN" \/ y.k = "NaN" THEN NaN
    ELSE IF x.k = "Inf" \/ y.k = "Inf" THEN PosInf
    ELSE Num(a * x.n * y.d + b * y.n * x.d, c * x.d * y.d)

\* a rate per second given as the float64 f
F64(f) == [k |-> "f64", f |-> f]

\* x >= t where x is per nanosecond (or a float64 per second) and t per
\* second; false for NaN
Geq(x, t) ==
    CASE x.k = "NaN" -> FALSE
      [] x.k = "Inf" -> TRUE
      [] x.k = "f64" -> FLeq(FFromInt(t), x.f)
      [] OTHER -> BCmp(BMulSmall(BMulSmall(BMulSmall(BFromInt(x.n), 1000),
                                           1000), 1000),
                       BMul(BFromInt(t), BFromInt(x.d))) >= 0

\* the switch of the rate... functions on the thresholds t[4] > ... > t[1]
Label(x, t) ==
    IF Geq(x, t[4]) THEN "Excellent"
    ELSE IF Geq(x, t[3]) THEN "Good"
    ELSE IF Geq(x, t[2]) THEN "Adequate"
    ELSE IF Geq(x, t[1]) THEN "Marginal"
    ELSE "Poor"

rateKeccak(hps) == Label(hps, <<50000, 100000, 200000, 500000>>)
rateECDSA(verifyRate, recoverRate) ==
    Label(Mix(verifyRate, 6, recoverRate, 4, 10), <<250, 500, 1000, 2000>>)
rateBLS(verifyRate) == Label(verifyRate, <<50, 100, 200, 500>>)
rateBN256(pairRate) == Label(pairRate, <<10, 25, 50, 100>>)
rateTrie(insertRate, lookupRate) ==
    Label(Mix(insertRate, 4000, lookupRate, 6, 10000),
          <<5000, 10000, 20000, 50000>>)
ratePool(opsPerSec) == Label(opsPerSec, <<50000, 100000, 200000, 500000>>)
rateStateCache(hitsPerSec) ==
    Label(hitsPerSec, <<50000, 100000, 200000, 500000>>)
rateSequential(writeSpeed, readSpeed) ==
    Label(Mix(writeSpeed, 6, readSpeed, 4, 10), <<50, 100, 200, 400>>)
rateRandom(readIOPS, writeIOPS) ==
    Label(Mix(readIOPS, 7, writeIOPS, 3, 10), <<5000, 10000, 20000, 50000>>)
rateBatch(throughputMBps) == Label(throughputMBps, <<10, 25, 50, 100>>)

----------------------------------------------------------------------------
(* The probes: one call of a Benchmark function.  Time is counted in       *)
(* nanoseconds on the monotonic clock that time.Since reads.  An operation *)
(* takes 1..MaxLatency ns; up to MaxGap ns pass between start :=           *)
(* time.Now() and the first deadline check, and between the last check and *)
(* the time.Since that measures the elapsed time.                          *)

MaxDuration == 5
MaxLatency == 2
MaxGap == 1

Probes == {"Keccak", "ECDSA", "BLS", "BN256", "Trie", "Pool", "StateCache",
           "Sequential", "Random", "Batch"}

\* one measurement loop: its budget is duration * num / den, an iteration
\* runs batch operations between two deadline checks, fallible tells that
\* an operation can return an error
Loop(num, den, batch, fallible) ==
    [num |-> num, den |-> den, batch |-> batch, fallible |-> fallible]

\* the measurement loops of each probe, in program order
Loops(p) ==
    CASE p = "Keccak" -> << Loop(1, 1, 4, FALSE) >>
      [] p = "ECDSA" -> << Loop(1, 3, 1, TRUE), Loop(1, 3, 1, TRUE),
                           Loop(1, 3, 1, TRUE) >>
      [] p = "BLS" -> << Loop(1, 4, 1, FALSE), Loop(1, 4, 1, TRUE),
                         Loop(1, 4, 1, FALSE), Loop(1, 4, 1, TRUE) >>
      [] p = "BN256" -> << Loop(3, 10, 1, FALSE), Loop(3, 10, 1, FALSE),
                           Loop(4, 10, 1, FALSE) >>
      [] p = "Trie" -> << Loop(2, 5, 1, FALSE), Loop(2, 5, 1, FALSE),
                          Loop(1, 5, 1, FALSE) >>
      [] p = "Pool" -> << Loop(1, 1, 1, FALSE) >>
      [] p = "StateCache" -> << Loop(1, 1, 1, FALSE) >>
      [] p = "Sequential" -> << Loop(1, 2, 2, TRUE), Loop(1, 2, 1, TRUE) >>
      [] p = "Random" -> << Loop(3, 5, 1, TRUE), Loop(2, 5, 1, TRUE) >>
      [] p = "Batch" -> << Loop(1, 1, 1, TRUE) >>
      [] OTHER -> << >>

\* signDuration := duration / 3, addDuration := duration * 3 / 10, ...
LoopDuration(p, ph, d) == (d * Loops(p)[ph].num) \div Loops(p)[ph].den

\* the errors the setup of a probe can return before its first loop
SetupErrors(p) ==
    CASE p = "ECDSA" -> {"GenerateKey"}
      [] p = "BN256" -> {"RandomG1"}
      [] p = "Sequential" -> {"open"}
      [] p = "Random" -> {"open", "truncate"}
      [] p = "Batch" -> {"open"}
      [] OTHER -> {}

\* the Rating of a result returned on a setup error
ErrorRating(p, err) ==
    IF p \in {"ECDSA", "BN256"} THEN "Error" ELSE "Error: " \o err

\* if len(nodeKeys) > 0 { for ... }: the lookup loop of the trie probe is
\* not entered when the insert loop inserted nothing
Skipped(p, ph, cnt) == p = "Trie" /\ ph = 2 /\ cnt[1] = 0

\* loop ph of the ECDSA probe runs without a signature
Unsigned(p, phase_, ph, a) == p = "ECDSA" /\ phase_ = ph /\ ~a.signed

\* make([]byte, 0, 4096) of newMemoryPool's New
NewCap == 4096

\* const maxBufferSize with the capacity of a new buffer as the limit
maxBufferSizeSmall == NewCap

\* const maxBufferSize = 16 << 10
maxBufferSize == 16384

\* targetSize := 1024 + int(totalBytes%15360)
targetSize(totalBytes) == 1024 + (totalBytes % 15360)

\* what memPool.pool.Get() and stPool.pool.Get() can return: a buffer that
\* was put into the pool, or a new one (sync.Pool may not hand out what it
\* holds); buffers are numbered as they are made
Gets(p, a) ==
    IF p # "Pool" THEN { [mem |-> [id |-> 0, cap |-> 0], stack |-> "none"] }
    ELSE { [mem |-> m, stack |-> st] :
             m \in a.memPool \cup {[id |-> a.made + 1, cap |-> NewCap]},
             st \in (IF a.stPool > 0 THEN {"pooled", "new"} ELSE {"new"}) }

\* whether the iteration that got the buffer mem allocates or reuses
PoolOutcome(a, mem) ==
    IF mem.cap < targetSize(a.bytes[1]) THEN "alloc" ELSE "reuse"

\* the pools and their counters after the iteration of the pool probe that
\* got g; a is the state before the iteration, b is a with the other
\* accumulators updated
PoolAccess(a, b, p, g) ==
    IF p # "Pool" THEN b
    ELSE LET target == targetSize(a.bytes[1])
             fresh  == IF g.mem.id > a.made THEN 1 ELSE 0
             alloc  == g.mem.cap < target
             mem    == IF alloc
                       THEN [id |-> a.made + fresh + 1, cap |-> target]
                       ELSE g.mem
             put    == mem.cap <= maxBufferSize
         IN  [b EXCEPT
                !.reuse = IF alloc THEN @ ELSE @ + 1,
                !.made = @ + fresh + (IF alloc THEN 1 ELSE 0),
                !.requested = target,
                !.memPool = (@ \ {g.mem}) \cup (IF put THEN {mem} ELSE {}),
                !.puts = IF put THEN @ + 1 ELSE @,
                !.dropped = IF put /\ mem = g.mem THEN @ ELSE @ + 1,
                !.stPool = IF g.stack = "new" THEN @ + 1 ELSE @]

\* the state cache: 10000 accounts of 50 storage slots in the code, scaled
\* down; addresses and keys are random bytes, so two of them can be equal
MaxAccounts == 2
MaxSlots == 2

\* the random address of account i: its own, or with twin that of the
\* first account once more for the second
randomAddr(i, twin) == IF twin /\ i = 2 THEN 1 ELSE i

\* the random keys of the slots of object i: each its own, or with twin
\* that of the first slot once more for the second
randomKeys(i, twin) ==
    [j \in 1 .. MaxSlots |-> <<i, IF twin /\ j = 2 THEN 1 ELSE j>>]

\* the elements of the sequence q
Range(q) == { q[i] : i \in 1 .. Len(q) }

\* obj := &stateObject{...} after its 50 storage slots were populated with
\* the keys ks: originStorage holds every key, storageKeys lists them
stateObject(ks) ==
    [originStorage |-> Range(ks), dirtyStorage |-> {}, pendingStorage |-> {},
     storageKeys |-> ks]

\* the pre-populated caches: the addresses and the objects, in the order of
\* their creation
Populations(p) ==
    IF p # "StateCache" THEN { [addresses |-> <<>>, objects |-> <<>>] }
    ELSE { [addresses |-> [i \in 1 .. MaxAccounts |-> randomAddr(i, t)],
            objects |-> [i \in 1 .. MaxAccounts |->
                           stateObject(randomKeys(i, tw[i]))]] :
             t \in BOOLEAN, tw \in [1 .. MaxAccounts -> BOOLEAN] }

\* cache[addr]: the object stored last under addr (its position)
cache(a, addr) ==
    CHOOSE i \in 1 .. Len(a.addresses) :
       /\ a.addresses[i] = addr
       /\ \A j \in 1 .. Len(a.addresses) : a.addresses[j] = addr => j <= i

\* the object and the key operation opIndex reads: a key of another object
objectAndKeyForeign(a, opIndex) ==
    LET idx    == opIndex % Len(a.addresses)
        obj    == cache(a, a.addresses[idx + 1])
        other  == (obj % Len(a.objects)) + 1
        keyIdx == opIndex % Len(a.objects[other].storageKeys)
    IN  [obj |-> obj, key |-> a.objects[other].storageKeys[keyIdx + 1]]

\* the object and the key operation opIndex reads:
\* idx := int(opIndex) % len(addresses); obj := cache[addresses[idx]];
\* keyIdx := int(opIndex) % len(obj.storageKeys); key := obj.storageKeys[keyIdx]
objectAndKey(a, opIndex) ==
    LET idx    == opIndex % Len(a.addresses)
        obj    == cache(a, a.addresses[idx + 1])
        keyIdx == opIndex % Len(a.objects[obj].storageKeys)
    IN  [obj |-> obj, key |-> a.objects[obj].storageKeys[keyIdx + 1]]

\* the branch of the lookup of operation opIndex: dirty first, then pending,
\* then origin, else the key is absent
GetState(a, opIndex) ==
    LET ok  == objectAndKey(a, opIndex)
        obj == a.objects[ok.obj]
    IN  IF ok.key \in obj.dirtyStorage THEN "dirty"
        ELSE IF ok.key \in obj.pendingStorage THEN "pending"
        ELSE IF ok.key \in obj.originStorage THEN "origin"
        ELSE "absent"

\* opIndex := hits + misses
OpIndex(p, ph, cnt, a) ==
    IF p = "StateCache" THEN a.hits + a.misses ELSE cnt[ph]

\* the outcomes of one operation of a loop, opIndex operations done before
Outcomes(p, ph, opIndex, a) ==
    CASE p = "Pool" -> {"alloc", "reuse"}
      [] p = "StateCache" ->
           IF opIndex % 5 < 4
           THEN (IF GetState(a, opIndex) = "absent" THEN {"miss"}
                 ELSE {"hit"})
           ELSE {"miss", "hit"}
      [] OTHER -> IF Loops(p)[ph].fallible THEN {"ok", "fail"} ELSE {"ok"}

\* the cache and its counters after operation opIndex of the state cache
\* probe ended with outcome; b is a with the other accumulators updated
StateAccess(a, b, p, opIndex, outcome) ==
    IF p # "StateCache" THEN b
    ELSE IF opIndex % 5 < 4
    THEN LET ok == objectAndKey(a, opIndex)
             br == GetState(a, opIndex)
         IN  [b EXCEPT
                !.hits = IF outcome = "hit" THEN @ + 1 ELSE @,
                !.lookups = @ + 1,
                !.unexpected = IF br = "absent" THEN @ + 1 ELSE @,
                !.objects[ok.obj].dirtyStorage =
                    IF br = "origin" THEN @ \cup {ok.key} ELSE @]
    ELSE [b EXCEPT !.hits = IF outcome = "hit" THEN @ + 1 ELSE @]

\* Counted without the err == nil test
CountedAlways(p, ph, outcome) == TRUE

\* whether an operation with this outcome increments the success counter
Counted(p, ph, outcome) == outcome # "fail"

\* the bytes an operation adds to the byte total: i is its position in the
\* inner loop, opIndex the operations counted before, total the byte total
Bytes(p, ph, i, outcome, opIndex, total) ==
    CASE outcome = "fail" -> 0
      [] p = "Keccak" -> <<32, 64, 128, 550>>[i]
      [] p = "Pool" -> 1024 + (total % 15360)
      [] p = "StateCache" -> IF opIndex % 5 < 4 THEN 32 ELSE 100
      [] p = "Sequential" /\ ph = 1 -> <<128 * 1024, 1024 * 1024>>[i]
      [] p = "Sequential" /\ ph = 2 -> 1024 * 1024
      [] p = "Batch" -> 2000 * 100
      [] OTHER -> 0

\* the latency an operation adds to the latency total
Latency(p, outcome, lat) ==
    CASE p = "Random" -> lat
      [] p = "Batch" /\ outcome # "fail" -> lat
      [] OTHER -> 0

\* the result struct of a probe with every field at its zero value
ZeroValue(p) ==
    CASE p = "Keccak" -> [HashesPerSecond |-> Zero, Duration |-> 0,
                          Rating |-> ""]
      [] p = "ECDSA" -> [SignaturesPerSecond |-> Zero,
                         VerificationsPerSecond |-> Zero,
                         RecoveriesPerSecond |-> Zero, Duration |-> 0,
                         Rating |-> ""]
      [] p = "BLS" -> [SignaturesPerSecond |-> Zero,
                       VerificationsPerSecond |-> Zero,
                       AggregationsPerSecond |-> Zero, Duration |-> 0,
                       Rating |-> ""]
      [] p = "BN256" -> [G1AddsPerSecond |-> Zero,
                         G1ScalarMulsPerSecond |-> Zero,
                         PairingsPerSecond |-> Zero, Duration |-> 0,
                         Rating |-> ""]
      [] p = "Trie" -> [InsertsPerSecond |-> Zero, LookupsPerSecond |-> Zero,
                        HashesPerSecond |-> Zero, Duration |-> 0,
                        Rating |-> ""]
      [] p = "Pool" -> [AllocationsPerSecond |-> Zero,
                        ReusesPerSecond |-> Zero, Duration |-> 0,
                        Rating |-> ""]
      [] p = "StateCache" -> [CacheHitsPerSecond |-> Zero,
                              CacheMissesPerSecond |-> Zero,
                              HitRatio |-> Zero, ThroughputMBPerSec |-> Zero,
                              Duration |-> 0, Rating |-> ""]
      [] p = "Sequential" -> [WriteSpeedMBps |-> Zero, ReadSpeedMBps |-> Zero,
                              Duration |-> 0, Rating |-> ""]
      [] p = "Random" -> [ReadIOPS |-> Zero, WriteIOPS |-> Zero,
                          AvgLatencyUs |-> Zero, Duration |-> 0,
                          Rating |-> ""]
      [] p = "Batch" -> [BatchesPerSecond |-> Zero, ThroughputMBps |-> Zero,
                         AvgBatchLatencyMs |-> Zero, Duration |-> 0,
                         Rating |-> ""]

MB == 1024 * 1024

\* writeSpeed := float64(totalWritten) / writeElapsed.Seconds() / (1024 * 1024)
writeSpeed(a, e) == Over(Quo(a.bytes[1], e[1]), MB)

\* the result struct a probe returns after its last loop, from the counters
\* c, the elapsed times e and the accumulators a
Return(p, c, e, a) ==
    CASE p = "Keccak" ->
           [HashesPerSecond |-> Quo(c[1], e[1]), Duration |-> e[1],
            Rating |-> rateKeccak(Quo(c[1], e[1]))]
      [] p = "ECDSA" ->
           [SignaturesPerSecond |-> Quo(c[1], e[1]),
            VerificationsPerSecond |-> Quo(c[2], e[2]),
            RecoveriesPerSecond |-> Quo(c[3], e[3]),
            Duration |-> e[1] + e[2] + e[3],
            Rating |-> rateECDSA(Quo(c[2], e[2]), Quo(c[3], e[3]))]
      [] p = "BLS" ->
           [SignaturesPerSecond |-> Quo(c[1], e[1]),
            VerificationsPerSecond |-> Quo(c[2], e[2]),
            AggregationsPerSecond |-> Quo(c[3], e[3]),
            Duration |-> e[1] + e[2] + e[3] + e[4],
            Rating |-> rateBLS(Quo(c[2], e[2]))]
      [] p = "BN256" ->
           [G1AddsPerSecond |-> Quo(c[1], e[1]),
            G1ScalarMulsPerSecond |-> Quo(c[2], e[2]),
            PairingsPerSecond |-> Quo(c[3], e[3]),
            Duration |-> e[1] + e[2] + e[3],
            Rating |-> rateBN256(Quo(c[3], e[3]))]
      [] p = "Trie" ->
           [InsertsPerSecond |-> Quo(c[1], e[1]),
            LookupsPerSecond |-> Quo(c[2], e[2]),
            HashesPerSecond |-> Quo(c[3], e[3]),
            Duration |-> e[1] + e[2] + e[3],
            Rating |-> rateTrie(Quo(c[1], e[1]), Quo(c[2], e[2]))]
      [] p = "Pool" ->
           [AllocationsPerSecond |-> Quo(a.alloc, e[1]),
            ReusesPerSecond |-> Quo(c[1] - a.alloc, e[1]),
            Duration |-> e[1],
            Rating |-> ratePool(Quo(c[1], e[1]))]
      [] p = "StateCache" ->
           [CacheHitsPerSecond |-> Quo(c[1] - a.misses, e[1]),
            CacheMissesPerSecond |-> Quo(a.misses, e[1]),
            HitRatio |-> Quo(c[1] - a.misses, c[1]),
            ThroughputMBPerSec |-> Over(Quo(a.bytes[1], e[1]), MB),
            Duration |-> e[1],
            Rating |-> rateStateCache(Quo(c[1] - a.misses, e[1]))]
      [] p = "Sequential" ->
           [WriteSpeedMBps |-> writeSpeed(a, e),
            ReadSpeedMBps |-> Over(Quo(a.bytes[2], e[2]), MB),
            Duration |-> e[1] + e[2],
            Rating |-> rateSequential(writeSpeed(a, e),
                                      Over(Quo(a.bytes[2], e[2]), MB))]
      [] p = "Random" ->
           [ReadIOPS |-> Quo(c[1], e[1]),
            WriteIOPS |-> Quo(c[2], e[2]),
            AvgLatencyUs |-> Quo(a.latency \div 1000, c[1] + c[2]),
            Duration |-> e[1] + e[2],
            Rating |-> rateRandom(Quo(c[1], e[1]), Quo(c[2], e[2]))]
      [] p = "Batch" ->
           [BatchesPerSecond |-> Quo(c[1], e[1]),
            ThroughputMBps |-> Over(Quo(a.bytes[1], e[1]), MB),
            AvgBatchLatencyMs |-> Quo(a.latency \div 1000000, c[1]),
            Duration |-> e[1],
            Rating |-> rateBatch(Over(Quo(a.bytes[1], e[1]), MB))]

\* the test file of each disk probe
TestFile(p) ==
    CASE p = "Sequential" -> "ethbench_seq_test.dat"
      [] p = "Random" -> "ethbench_random_test.dat"
      [] p = "Batch" -> "ethbench_batch_test.dat"

DiskProbes == {"Sequential", "Random", "Batch"}

\* the object pools each probe gets from and puts to; those of the pool
\* probe are made by each call
Pools(p) ==
    CASE p = "Keccak" -> {"cpu.hasherPool"}
      [] p = "Trie" -> {"memory.trieHasherPool"}
      [] p = "Pool" -> {"memPool", "stPool"}
      [] OTHER -> {}

\* os.OpenFile with O_CREATE, f.Close(), os.Remove(testFile), defer
Create(a, p) == [a EXCEPT !.open = @ + 1, !.files = @ \cup {TestFile(p)}]
Close(a) == [a EXCEPT !.open = @ - 1]
Remove(a, p) == [a EXCEPT !.files = @ \ {TestFile(p)}]
Defer(a, call) == [a EXCEPT !.defers = <<call>> \o @]

\* the deferred calls run at a return, last deferred first
RECURSIVE RunDefers(_, _)
RunDefers(a, p) ==
    IF a.defers = <<>> THEN a
    ELSE RunDefers(
            [(IF Head(a.defers) = "Close" THEN Close(a) ELSE Remove(a, p))
                EXCEPT !.defers = Tail(a.defers)], p)

\* the files and handles after the setup of a probe that returned err
SetupResources(a, p, err) ==
    CASE p \notin DiskProbes -> a
      [] err = "open" -> RunDefers(Defer(a, "Remove"), p)
      [] err = "truncate" ->
           RunDefers(Close(Create(Defer(a, "Remove"), p)), p)
      [] p = "Batch" -> Defer(Create(Defer(a, "Remove"), p), "Close")
      [] OTHER -> Create(Defer(a, "Remove"), p)

\* ExitResources without the f.Close() calls
ExitResourcesLeaking(a, p, ph) == a

\* f.Sync(); f.Close() after the write loops of the sequential and random
\* probes, f.Close() after the read loop of the sequential probe
ExitResources(a, p, ph) ==
    IF p = "Sequential" \/ (p = "Random" /\ ph = 2) THEN Close(a) ELSE a

otherVars ==
    <<results, summary, verdict, pc, curve, value, score, last, config,
      budget, runVars, reports>>

\* the probe's key, points or test file are set up, or the setup returns err
Setup(err) ==
    /\ at = "setup"
    /\ err \in SetupErrors(probe) \cup {"nil"}
    /\ IF err # "nil"
       THEN /\ result' = [ZeroValue(probe) EXCEPT
                             !.Rating = ErrorRating(probe, err)]
            /\ at' = "done"
            /\ phase' = phase
       ELSE /\ result' = result
            /\ at' = "start"
            /\ phase' = 1
    /\ \E c \in Populations(probe) :
          aux' = [SetupResources(aux, probe, err) EXCEPT
                     !.addresses = c.addresses, !.objects = c.objects]
    /\ UNCHANGED <<probe, duration, inner, clock, count, elapsed, hist,
                   otherVars>>

\* start := time.Now() before a loop
Start ==
    /\ at = "start"
    /\ clock' = 0
    /\ hist' = [hist EXCEPT !.loop = NoHist]
    /\ at' = IF Skipped(probe, phase, count) THEN "exit" ELSE "check"
    /\ UNCHANGED <<probe, duration, phase, inner, count, elapsed, aux, result,
                   otherVars>>

\* for time.Since(start) < loopDuration: the deadline check; gap is the
\* time that passed between time.Now() and the first check
Check(gap) ==
    /\ at = "check"
    /\ gap \in (IF hist.loop.ops = 0 THEN 0 .. MaxGap ELSE {0})
    /\ clock' = clock + gap
    /\ IF clock' < LoopDuration(probe, phase, duration)
       THEN /\ at' = "work"
            /\ inner' = 1
            /\ hist' = [hist EXCEPT !.loop.sinceCheck = 0,
                                    !.loop.time = @ + gap]
       ELSE /\ at' = "exit"
            /\ inner' = 0
            /\ hist' = [hist EXCEPT !.loop.time = @ + gap]
    /\ UNCHANGED <<probe, duration, phase, count, elapsed, aux, result,
                   otherVars>>

\* one operation of the loop body: it takes lat nanoseconds and ends with
\* outcome; a failed write leaves the inner loop of the sequential probe
Work(lat, outcome) ==
    /\ at = "work"
    /\ ~Unsigned(probe, phase, 2, aux)
    /\ lat \in 1 .. MaxLatency
    /\ outcome \in Outcomes(probe, phase,
                           OpIndex(probe, phase, count, aux), aux)
    /\ Unsigned(probe, phase, 3, aux) => outcome = "fail"
    /\ clock' = clock + lat
    /\ count' = [count EXCEPT ![phase] =
                    IF Counted(probe, phase, outcome) THEN @ + 1 ELSE @]
    /\ \E g \in Gets(probe, aux) :
          /\ probe = "Pool" => outcome = PoolOutcome(aux, g.mem)
          /\ aux' = PoolAccess(aux,
                       StateAccess(aux,
                          [aux EXCEPT
                             !.bytes[phase] =
                                 @ + Bytes(probe, phase, inner, outcome,
                                           OpIndex(probe, phase, count, aux),
                                           @),
                             !.alloc = IF outcome = "alloc" THEN @ + 1 ELSE @,
                             !.misses = IF outcome = "miss" THEN @ + 1 ELSE @,
                             !.latency = @ + Latency(probe, outcome, lat)],
                          probe, OpIndex(probe, phase, count, aux), outcome),
                       probe, g)
    /\ hist' = [hist EXCEPT
                  !.loop.ops = @ + 1,
                  !.loop.sinceCheck =
                      IF Counted(probe, phase, outcome) THEN @ + 1 ELSE @,
                  !.loop.lastLatency = lat,
                  !.loop.time = @ + lat,
                  !.attempts[phase] = @ + 1,
                  !.failures[phase] = IF outcome = "fail" THEN @ + 1 ELSE @]
    /\ IF inner < Loops(probe)[phase].batch /\ outcome # "fail"
       THEN at' = "work" /\ inner' = inner + 1
       ELSE at' = "check" /\ inner' = 0
    /\ UNCHANGED <<probe, duration, phase, elapsed, result, otherVars>>

\* signature[:64] of the signature that is nil: the verification loop of
\* the ECDSA probe panics (slice bounds out of range)
Panic ==
    /\ at = "work"
    /\ Unsigned(probe, phase, 2, aux)
    /\ at' = "panic"
    /\ UNCHANGED <<probe, duration, phase, inner, clock, count, elapsed, aux,
                   hist, result, otherVars>>

\* elapsed := time.Since(start) after a loop, gap nanoseconds after the
\* last deadline check; then the next loop, the signature for the
\* verification loop, the reopening of the test file, or the return
\* statement
Exit(gap) ==
    /\ at = "exit"
    /\ gap \in 0 .. MaxGap
    /\ elapsed' = [elapsed EXCEPT ![phase] = clock + gap]
    /\ at' = IF probe = "Sequential" /\ phase = 1 THEN "reopen"
             ELSE IF probe = "ECDSA" /\ phase = 1 THEN "presign"
             ELSE IF phase < Len(Loops(probe)) THEN "start"
             ELSE "return"
    /\ phase' = IF at' = "start" THEN phase + 1 ELSE phase
    /\ aux' = ExitResources(aux, probe, phase)
    /\ UNCHANGED <<probe, duration, inner, clock, count, hist, result,
                   otherVars>>

\* signature, _ := crypto.Sign(message, privateKey): the ECDSA probe signs
\* once for its verification and recovery loops and drops the error
Presign(err) ==
    /\ at = "presign"
    /\ err \in {"Sign", "nil"}
    /\ aux' = [aux EXCEPT !.signed = (err = "nil")]
    /\ at' = "start"
    /\ phase' = phase + 1
    /\ UNCHANGED <<probe, duration, inner, clock, count, elapsed, hist,
                   result, otherVars>>

\* the sequential probe reopens its test file for the read loop
Reopen(err) ==
    /\ at = "reopen"
    /\ err \in {"open", "nil"}
    /\ IF err # "nil"
       THEN /\ result' = [ZeroValue(probe) EXCEPT
                             !.WriteSpeedMBps = writeSpeed(aux, elapsed),
                             !.Rating = ErrorRating(probe, err)]
            /\ at' = "done"
            /\ phase' = phase
            /\ aux' = RunDefers(aux, probe)
       ELSE /\ result' = result
            /\ at' = "start"
            /\ phase' = phase + 1
            /\ aux' = [aux EXCEPT !.open = @ + 1]
    /\ UNCHANGED <<probe, duration, inner, clock, count, elapsed, hist,
                   otherVars>>

\* the return statement after the last loop
Returning ==
    /\ at = "return"
    /\ result' = Return(probe, count, elapsed, aux)
    /\ at' = "done"
    /\ aux' = RunDefers(aux, probe)
    /\ UNCHANGED <<probe, duration, phase, inner, clock, count, elapsed, hist,
                   otherVars>>

\* a call of one Benchmark function with a duration of 0..MaxDuration ns
InitProbe ==
    /\ results = ZeroResults
    /\ summary = ZeroSummary
    /\ verdict = ZeroVerdict
    /\ pc = "probe"
    /\ curve = KeccakCurve
    /\ value = 0
    /\ score = FZero
    /\ last = [value |-> 0, score |-> FZero]
    /\ config = DefaultConfig
    /\ budget = NoBudget
    /\ RunnerIdle
    /\ probe \in Probes
    /\ duration \in 0 .. MaxDuration
    /\ at = "setup"
    /\ phase = 0
    /\ inner = 0
    /\ clock = 0
    /\ count = <<0, 0, 0, 0>>
    /\ elapsed = <<0, 0, 0, 0>>
    /\ aux = NoAux
    /\ hist = [loop |-> NoHist, attempts |-> <<0, 0, 0, 0>>,
               failures |-> <<0, 0, 0, 0>>]
    /\ result = <<>>
    /\ reports = <<>>

NextProbe ==
    \/ \E err \in {"nil", "GenerateKey", "RandomG1", "open", "truncate"} :
          Setup(err)
    \/ Start
    \/ \E gap \in 0 .. MaxGap : Check(gap)
    \/ \E lat \in 1 .. MaxLatency :
          \E outcome \in {"ok", "fail", "alloc", "reuse", "hit", "miss"} :
             Work(lat, outcome)
    \/ Panic
    \/ \E gap \in 0 .. MaxGap : Exit(gap)
    \/ \E err \in {"nil", "Sign"} : Presign(err)
    \/ \E err \in {"nil", "open"} : Reopen(err)
    \/ Returning

SpecProbe == InitProbe /\ [][NextProbe]_vars

----------------------------------------------------------------------------
(* The probes' contracts.                                                  *)

\* the loops of the executing probe
LoopsOf == 1 .. Len(Loops(probe))

(* C15: a loop starts an iteration only while elapsed < its duration, and a *)
(* probe whose setup succeeded does not reach its return statement before   *)
(* each of its loops has seen an elapsed time >= its allotted duration.      *)
C15_RunsToDeadline ==
    /\ (at = "work" /\ inner = 1) =>
          clock < LoopDuration(probe, phase, duration)
    /\ at = "return" =>
          \A ph \in LoopsOf : elapsed[ph] >= LoopDuration(probe, ph, duration)

(* C16: no two counted operations without a deadline check between them,  *)
(* so when a loop that ran is left, the time since its start exceeds its   *)
(* duration by at most the latency of one operation (the last one).        *)
C16_OneOperationOverrun ==
    /\ hist.loop.sinceCheck <= 1
    /\ (at = "exit" /\ hist.loop.ops > 0) =>
          clock - LoopDuration(probe, phase, duration) <= hist.loop.lastLatency

\* the probe returned from the return statement after its last loop
Completed == at = "done" /\ phase = Len(Loops(probe))

\* a rate, ratio or average of a result, and the loops it is measured in
Measure(field, loops) == [field |-> field, loops |-> loops]

\* the rates, ratios and averages each probe returns
Measures(p) ==
    CASE p = "Keccak" -> { Measure("HashesPerSecond", {1}) }
      [] p = "ECDSA" -> { Measure("SignaturesPerSecond", {1}),
                          Measure("VerificationsPerSecond", {2}),
                          Measure("RecoveriesPerSecond", {3}) }
      [] p = "BLS" -> { Measure("SignaturesPerSecond", {1}),
                        Measure("VerificationsPerSecond", {2}),
                        Measure("AggregationsPerSecond", {3}) }
      [] p = "BN256" -> { Measure("G1AddsPerSecond", {1}),
                          Measure("G1ScalarMulsPerSecond", {2}),
                          Measure("PairingsPerSecond", {3}) }
      [] p = "Trie" -> { Measure("InsertsPerSecond", {1}),
                         Measure("LookupsPerSecond", {2}),
                         Measure("HashesPerSecond", {3}) }
      [] p = "Pool" -> { Measure("AllocationsPerSecond", {1}),
                         Measure("ReusesPerSecond", {1}) }
      [] p = "StateCache" -> { Measure("CacheHitsPerSecond", {1}),
                               Measure("CacheMissesPerSecond", {1}),
                               Measure("HitRatio", {1}),
                               Measure("ThroughputMBPerSec", {1}) }
      [] p = "Sequential" -> { Measure("WriteSpeedMBps", {1}),
                               Measure("ReadSpeedMBps", {2}) }
      [] p = "Random" -> { Measure("ReadIOPS", {1}),
                           Measure("WriteIOPS", {2}),
                           Measure("AvgLatencyUs", {1, 2}) }
      [] p = "Batch" -> { Measure("BatchesPerSecond", {1}),
                          Measure("ThroughputMBps", {1}),
                          Measure("AvgBatchLatencyMs", {1}) }
      [] OTHER -> {}

\* the loops ran no iteration (a loop that measured an elapsed time of zero
\* ran none: an operation takes time)
Idle(loops) ==
    \A ph \in loops : hist.attempts[ph] = 0 \/ elapsed[ph] = 0

(* C17: no result holds the outcome of a division by zero, and a rate,     *)
(* ratio or average whose loops ran zero iterations or measured zero       *)
(* elapsed time is reported as 0.                                          *)
C17_ZeroGuard ==
    Completed =>
       \A m \in Measures(probe) :
          /\ result[m.field] \notin {NaN, PosInf}
          /\ Idle(m.loops) => result[m.field] = Zero

\* the probe returned from an error branch of its setup (the reopening of
\* the test file of the sequential probe included)
SetupFailed == at = "done" /\ phase < Len(Loops(probe))

Ratings == {"Excellent", "Good", "Adequate", "Marginal", "Poor", "Error"}

(* C18: the Rating of every result is one of the six labels, and a probe   *)
(* whose setup failed returns Rating "Error" with every rate at 0.         *)
C18_ErrorResult ==
    at = "done" =>
       /\ result.Rating \in Ratings
       /\ SetupFailed =>
             /\ result.Rating = "Error"
             /\ \A m \in Measures(probe) : result[m.field] = Zero

\* the fields that are ratios or averages, not rates
Averages == {"HitRatio", "AvgLatencyUs", "AvgBatchLatencyMs"}

\* every operation the loop ran has failed
AllFailed(ph) ==
    hist.attempts[ph] > 0 /\ hist.failures[ph] = hist.attempts[ph]

\* what holds in every state of a probe with failing operations
FailuresExcluded ==
    /\ \A ph \in LoopsOf : count[ph] + hist.failures[ph] = hist.attempts[ph]
    /\ at = "exit" /\ ~Skipped(probe, phase, count) =>
          clock >= LoopDuration(probe, phase, duration)
    /\ Completed =>
          /\ result.Rating \in Ratings \ {"Error"}
          /\ \A m \in Measures(probe) :
                (m.field \notin Averages /\ \A ph \in m.loops : AllFailed(ph))
                   => result[m.field] = Zero

\* the step of an operation that fails: nothing is counted, and the loop
\* goes back to its deadline check
FailedStep ==
    hist'.failures # hist.failures =>
       /\ count' = count
       /\ aux'.bytes = aux.bytes
       /\ at' = "check"
       /\ result' = result

(* C20: an operation that fails in a measurement loop adds nothing to the  *)
(* success counter or to the byte total, the loop goes on with its next    *)
(* deadline check and is left only at the deadline, the Rating of the      *)
(* result is not "Error", and a rate whose operations all failed is 0.     *)
C20_FailedOperation == []FailuresExcluded /\ [][FailedStep]_vars

\* a random I/O probe returned: every read failed and the read rate is 0,
\* some writes failed and others were counted
C20_Witness ==
    /\ Completed
    /\ probe = "Random"
    /\ AllFailed(1)
    /\ result.ReadIOPS = Zero
    /\ hist.failures[2] > 0
    /\ count[2] > 0
    /\ result.WriteIOPS # Zero

\* the fractions num/den of the probe's duration that are the budgets of
\* the phases of the multi-phase probes
Fraction(num, den) == [num |-> num, den |-> den]
Fractions(p) ==
    CASE p = "ECDSA" -> << Fraction(1, 3), Fraction(1, 3), Fraction(1, 3) >>
      [] p = "BLS" -> << Fraction(1, 4), Fraction(1, 4), Fraction(1, 4),
                         Fraction(1, 4) >>
      [] p = "BN256" -> << Fraction(3, 10), Fraction(3, 10),
                           Fraction(4, 10) >>
      [] p = "Trie" -> << Fraction(2, 5), Fraction(2, 5), Fraction(1, 5) >>
      [] p = "Random" -> << Fraction(3, 5), Fraction(2, 5) >>
      [] p = "Sequential" -> << Fraction(1, 2), Fraction(1, 2) >>
      [] OTHER -> << Fraction(1, 1) >>

\* a phase of the probe is running or has just been left
InPhase == at \in {"check", "work", "exit"}

(* C21: the budget of each phase is its fixed fraction of the probe's      *)
(* duration whatever the earlier phases measured, the clock a phase reads  *)
(* counts only the time since that phase started, and a phase is left only *)
(* after it ran for its budget, however long the earlier phases ran.       *)
C21_FixedFractions ==
    InPhase =>
       /\ Len(Fractions(probe)) = Len(Loops(probe))
       /\ \A f \in {Fractions(probe)[phase]} :
             LoopDuration(probe, phase, duration) =
                (duration * f.num) \div f.den
       /\ clock = hist.loop.time
       /\ at = "exit" =>
             hist.loop.time >= LoopDuration(probe, phase, duration)

(* C22: a disk probe that has returned holds no open file handle and has *)
(* removed its test file, whatever the return path; while it runs it     *)
(* touches its own test file only; no two disk probes have the same test *)
(* file and no two probes use the same object pool.                      *)
C22_OwnResources ==
    /\ aux.files \subseteq
          (IF probe \in DiskProbes THEN {TestFile(probe)} ELSE {})
    /\ aux.open \in 0 .. 1
    /\ at = "done" => aux.open = 0 /\ aux.files = {} /\ aux.defers = <<>>
    /\ \A p \in DiskProbes : \A q \in DiskProbes \ {p} :
          TestFile(p) # TestFile(q)
    /\ \A p \in Probes : \A q \in Probes \ {p} : Pools(p) \cap Pools(q) = {}

\* the sequential probe wrote its test file, could not reopen it, and has
\* returned with the file removed
C22_Witness ==
    /\ probe = "Sequential"
    /\ SetupFailed
    /\ phase = 1
    /\ hist.attempts[1] > 0
    /\ aux.files = {}
    /\ aux.open = 0

----------------------------------------------------------------------------
(* Scoring again and again: the pipeline is run up to MaxReports times,    *)
(* each time over the results of a machine whose probes all measured the   *)
(* same level.                                                             *)

MaxReports == 3

Machines ==
    { [CPU    |-> CPUAt(l, l, l, l),
       Memory |-> MemoryAt(l, l, 0, l),
       Disk   |-> DiskAt(l, l, l, l, l)] : l \in Levels }

\* another run of the pipeline starts
Again ==
    /\ pc = "reported"
    /\ Len(reports) < MaxReports
    /\ pc' = "run"
    /\ UNCHANGED <<results, summary, verdict, curve, value, score, last,
                   kernelVars>>

NextReports ==
    \/ \E r \in Machines : RunAll(r)
    \/ NewReport
    \/ Again

SpecReports == Init /\ [][NextReports]_vars

----------------------------------------------------------------------------
(* The verdict and the overall score.                                      *)

\* how good a readiness label is
Rank(label) ==
    CASE label = "Ready" -> 2
      [] label = "Marginal" -> 1
      [] label = "Unsuitable" -> 0
      [] OTHER -> -1

(* C24: in the Verdict of a report the execution label is Ready, Marginal *)
(* or Unsuitable, the consensus label is Ready or Marginal and not worse   *)
(* than the execution label, and there are 2 to 6 recommendations.         *)
C24_VerdictShape ==
    pc = "reported" =>
       /\ verdict.ExecutionClient \in {"Ready", "Marginal", "Unsuitable"}
       /\ verdict.ConsensusClient \in {"Ready", "Marginal"}
       /\ Rank(verdict.ConsensusClient) >= Rank(verdict.ExecutionClient)
       /\ verdict.Recommendations # <<>>
       /\ Len(verdict.Recommendations) \in 2 .. 6

\* a report with six recommendations for unsuitable hardware
C24_Witness ==
    /\ pc = "reported"
    /\ verdict.ExecutionClient = "Unsuitable"
    /\ Len(verdict.Recommendations) = 6

(* C25: in a report the overall score of the Verdict is the total score  *)
(* of the Summary, and the readiness labels are those of that score.      *)
C25_SameScore ==
    pc = "reported" =>
       /\ verdict.OverallScore = summary.TotalScore
       /\ <<verdict.ExecutionClient, verdict.ConsensusClient>> =
             readiness(summary.TotalScore)
       /\ \A rp \in {reports[Len(reports)]} :
             rp.Verdict.OverallScore = rp.Summary.TotalScore

\* a report whose total score and CPU score fall in different tiers
C25_Witness ==
    /\ pc = "reported"
    /\ summary.TotalScore >= 40
    /\ summary.TotalScore < 60
    /\ summary.CPUScore >= 80
    /\ verdict.OverallScore = summary.TotalScore
    /\ verdict.ExecutionClient = "Marginal"


----------------------------------------------------------------------------
(* A probe's rating and the report's score of the same metric: the rate    *)
(* function of the probe and scoreMetric of the report are applied to one  *)
(* float64 rate.                                                           *)

\* how many float64 neighbours of each breakpoint are tried on each side
MaxUlps == 2

\* the probes whose rating and whose score read the same single metric
SingleMetric == {"Keccak", "BLS", "BN256", "StateCache", "Batch"}

\* the curve calculateCPUScore, calculateMemoryScore and calculateDiskScore
\* apply to the metric of probe p
CurveOf(p) ==
    CASE p = "Keccak" -> KeccakCurve
      [] p = "BLS" -> BLSCurve
      [] p = "BN256" -> BN256Curve
      [] p = "StateCache" -> CacheCurve
      [] p = "Batch" -> BatchCurve

\* the rating probe p gives the rate x
RatingOf(p, x) ==
    CASE p = "Keccak" -> rateKeccak(x)
      [] p = "BLS" -> rateBLS(x)
      [] p = "BN256" -> rateBN256(x)
      [] p = "StateCache" -> rateStateCache(x)
      [] p = "Batch" -> rateBatch(x)

\* the float64 j places above (below, for j < 0) the integer b > 0
Ulps(b, j) ==
    LET k == MantBits - IntBitLen(b)
        m == BShl(BFromInt(b), k)
    IN  FCanon(FALSE,
               IF j < 0 THEN BSub(m, BFromInt(-j)) ELSE BAdd(m, BFromInt(j)),
               -k)

\* the rates tried for probe p: 0, the middle of every band, and the
\* float64 values around every breakpoint
RatesOf(p) ==
    LET c == CurveOf(p)
    IN  {FZero}
        \cup {FFromInt((c[i] + c[i + 1]) \div 2) : i \in 1 .. 3}
        \cup {FFromInt(2 * c[4])}
        \cup {Ulps(c[i], j) : i \in 1 .. 4, j \in (-MaxUlps) .. MaxUlps}

\* the probe rates x, and the report scores the same x
RateAndScore(x) ==
    /\ pc \in {"input", "rated"}
    /\ value' = x
    /\ result' = [Rating |-> RatingOf(probe, F64(x))]
    /\ score' = LET c == CurveOf(probe)
                 IN  scoreMetric64(x, c[1], c[2], c[3], c[4])
    /\ pc' = "rated"
    /\ UNCHANGED <<results, summary, verdict, curve, last, config, budget,
                   runVars, reports, probe, duration, at, phase, inner,
                   clock, count, elapsed, aux, hist>>

InitRating ==
    /\ results = ZeroResults
    /\ summary = ZeroSummary
    /\ verdict = ZeroVerdict
    /\ pc = "input"
    /\ curve = KeccakCurve
    /\ value = FZero
    /\ score = FZero
    /\ last = [value |-> 0, score |-> FZero]
    /\ config = DefaultConfig
    /\ budget = NoBudget
    /\ RunnerIdle
    /\ probe \in SingleMetric
    /\ duration = 0
    /\ at = "idle"
    /\ phase = 0
    /\ inner = 0
    /\ clock = 0
    /\ count = <<0, 0, 0, 0>>
    /\ elapsed = <<0, 0, 0, 0>>
    /\ aux = NoAux
    /\ hist = [loop |-> NoHist, attempts |-> <<0, 0, 0, 0>>,
               failures |-> <<0, 0, 0, 0>>]
    /\ result = <<>>
    /\ reports = <<>>

NextRating == \E x \in RatesOf(probe) : RateAndScore(x)

SpecRating == InitRating /\ [][NextRating]_vars

\* the band of a score
Band(s) ==
    IF s = FFromInt(100) THEN "Excellent"
    ELSE IF FLeq(FFromInt(75), s) /\ FLt(s, FFromInt(100)) THEN "Good"
    ELSE IF FLeq(FFromInt(50), s) /\ FLt(s, FFromInt(75)) THEN "Adequate"
    ELSE IF FLeq(FFromInt(25), s) /\ FLt(s, FFromInt(50)) THEN "Marginal"
    ELSE IF FLt(s, FFromInt(25)) THEN "Poor"
    ELSE "none"

\* C26: for the probes whose rating and score read the same single metric,
\* the Rating label of a rate is the band of the score of that rate:
\* Excellent iff the score is 100, Good iff it is in [75, 100), Adequate iff
\* in [50, 75), Marginal iff in [25, 50), Poor iff below 25.
C26_RatingIsBand ==
    pc = "rated" => result.Rating = Band(score)

\* the same on the rates that are whole numbers
C26_WholeRates ==
    pc = "rated" /\ value.e >= 0 => result.Rating = Band(score)


----------------------------------------------------------------------------
(* The advisories and the scores of the metrics they are about.            *)

\* the score calculateCPUScore gives the float64 rate x on curve c is
\* below 50 exactly when x is below the marginal breakpoint of c
BelowMarginal(c) ==
    \A j \in (-MaxUlps) .. MaxUlps :
       \A x \in {Ulps(c[2], j)} :
          FLt(scoreMetric64(x, c[1], c[2], c[3], c[4]), FFromInt(50))
             <=> FLt(x, FFromInt(c[2]))

\* C27: the ECDSA advisory is in the recommendations exactly when the score
\* of the ECDSA metric is below 50, and the BLS advisory exactly when the
\* score of the BLS metric is below 50, on the whole-number rates of the
\* results and on the float64 rates around the marginal breakpoints.
C27_AdvisoryIffLowScore ==
    pc = "reported" =>
       LET recs == verdict.Recommendations
           cpu  == results.CPU
       IN  /\ Positions(recs, ECDSAAdvice) # {}
                <=> FLt(scoreOn(cpu.ECDSA.VerificationsPerSecond, ECDSACurve),
                        FFromInt(50))
           /\ Positions(recs, BLSAdvice) # {}
                <=> FLt(scoreOn(cpu.BLS.VerificationsPerSecond, BLSCurve),
                        FFromInt(50))
           /\ cpu.ECDSA.VerificationsPerSecond < ECDSACurve[2]
                => BelowMarginal(ECDSACurve)
           /\ cpu.BLS.VerificationsPerSecond < BLSCurve[2]
                => BelowMarginal(BLSCurve)

\* a report with the ECDSA advisory and without the BLS one, the BLS rate
\* being exactly at its floor
C27_Witness ==
    /\ pc = "reported"
    /\ Positions(verdict.Recommendations, ECDSAAdvice) # {}
    /\ Positions(verdict.Recommendations, BLSAdvice) = {}
    /\ results.CPU.BLS.VerificationsPerSecond = BLSCurve[2]


----------------------------------------------------------------------------
(* The overall score as a function of the three category scores:           *)
(* calculateSummary's last statement applied to category scores drawn      *)
(* from 0 .. 100, and again after one of them was raised.                   *)

\* by how much a category score is raised
MaxRaise == 2

\* the category scores tried: the ends of the range and both sides of the
\* tier boundaries
Scores == {0, 1, 39, 40, 59, 60, 79, 80, 99, 100}

Categories == {"CPUScore", "MemoryScore", "DiskScore"}

\* the Summary of the category scores c, m, d
Summed(c, m, d) ==
    [CPUScore |-> c, MemoryScore |-> m, DiskScore |-> d,
     TotalScore |-> totalScore(c, d, m)]

\* totalScore := int(...) on the category scores of summary
Total ==
    /\ pc = "input"
    /\ summary' = Summed(summary.CPUScore, summary.MemoryScore,
                         summary.DiskScore)
    /\ value' = summary'.TotalScore
    /\ pc' = "summed"
    /\ UNCHANGED <<results, verdict, curve, score, last, kernelVars>>

\* the same with the score of category cat higher by n
Raise(cat, n) ==
    /\ pc = "summed"
    /\ summary[cat] + n <= 100
    /\ summary' = LET t == [summary EXCEPT ![cat] = @ + n]
                  IN  Summed(t.CPUScore, t.MemoryScore, t.DiskScore)
    /\ value' = summary.TotalScore
    /\ pc' = "raised"
    /\ UNCHANGED <<results, verdict, curve, score, last, kernelVars>>

InitTotal ==
    /\ results = ZeroResults
    /\ summary \in { [CPUScore |-> c, MemoryScore |-> m, DiskScore |-> d,
                      TotalScore |-> 0] :
                        c \in Scores, m \in Scores, d \in Scores }
    /\ verdict = ZeroVerdict
    /\ pc = "input"
    /\ curve = KeccakCurve
    /\ value = 0
    /\ score = FZero
    /\ last = [value |-> 0, score |-> FZero]
    /\ config = DefaultConfig
    /\ budget = NoBudget
    /\ RunnerIdle
    /\ ProbeIdle
    /\ reports = <<>>

NextTotal ==
    \/ Total
    \/ \E cat \in Categories : \E n \in 1 .. MaxRaise : Raise(cat, n)

SpecTotal == InitTotal /\ [][NextTotal]_vars

Least(s) ==
    CHOOSE x \in {s.CPUScore, s.MemoryScore, s.DiskScore} :
       \A y \in {s.CPUScore, s.MemoryScore, s.DiskScore} : x <= y

Largest(s) ==
    CHOOSE x \in {s.CPUScore, s.MemoryScore, s.DiskScore} :
       \A y \in {s.CPUScore, s.MemoryScore, s.DiskScore} : x >= y

\* C28: the overall score is at least the smallest and at most the largest
\* of the three category scores, and after one category score was raised,
\* the other two unchanged, it is not below what it was before.
C28_BetweenAndMonotone ==
    /\ pc \in {"summed", "raised"} =>
          /\ Least(summary) <= summary.TotalScore
          /\ summary.TotalScore <= Largest(summary)
    /\ pc = "raised" => summary.TotalScore >= value

\* a raise that lifted the overall score, which lies strictly between the
\* smallest and the largest category score
C28_Witness ==
    /\ pc = "raised"
    /\ summary.TotalScore > value
    /\ Least(summary) < summary.TotalScore
    /\ summary.TotalScore < Largest(summary)


----------------------------------------------------------------------------
(* The loop of the state cache probe.                                      *)

\* how many of the operations 0 .. n - 1 have an index that is below 4
\* modulo 5
LookupTurns(n) == Cardinality({ i \in 0 .. n - 1 : i % 5 < 4 })

\* C29: in BenchmarkStateCache hits + misses is the number of iterations
\* done, the lookup path was taken on exactly the iterations whose index
\* modulo 5 is below 4, every looked-up key was found (the branch for an
\* absent key was never taken), dirtyStorage is a subset of originStorage
\* and pendingStorage is empty in every object.
C29_StateCacheLoop ==
    probe = "StateCache" =>
       /\ aux.hits + aux.misses = hist.attempts[1]
       /\ aux.hits + aux.misses = count[1]
       /\ aux.lookups = LookupTurns(hist.attempts[1])
       /\ aux.unexpected = 0
       /\ \A i \in 1 .. Len(aux.objects) :
             /\ aux.objects[i].dirtyStorage
                   \subseteq aux.objects[i].originStorage
             /\ aux.objects[i].pendingStorage = {}
       /\ at = "work" /\ OpIndex(probe, phase, count, aux) % 5 < 4
             => GetState(aux, OpIndex(probe, phase, count, aux)) # "absent"

\* a run that took both paths and counted a miss, in a cache where two
\* addresses are equal; fewer keys are in dirtyStorage than were looked up,
\* so a key was read from dirtyStorage
C29_Witness ==
    /\ probe = "StateCache"
    /\ aux.lookups >= 4
    /\ aux.misses >= 1
    /\ aux.addresses[1] = aux.addresses[2]
    /\ aux.objects[1].dirtyStorage = {}
    /\ aux.objects[2].dirtyStorage # {}
    /\ Cardinality(aux.objects[2].dirtyStorage) < aux.lookups


----------------------------------------------------------------------------
(* The loop of the pool probe.                                             *)

\* totalBytes after n iterations
RECURSIVE TotalAfter(_)
TotalAfter(n) ==
    IF n = 0 THEN 0
    ELSE TotalAfter(n - 1) + targetSize(TotalAfter(n - 1))

\* what holds of the counters, the sizes and the pool in every iteration
PoolCounters ==
    /\ aux.alloc + aux.reuse = hist.attempts[1]
    /\ aux.alloc + aux.reuse = count[1]
    /\ hist.attempts[1] > 0 => aux.requested \in 1024 .. 16383
    /\ \A b \in aux.memPool : b.cap <= maxBufferSize
    /\ aux.bytes[1] = TotalAfter(hist.attempts[1])
    /\ hist.attempts[1] > 0 =>
          aux.bytes[1] = TotalAfter(hist.attempts[1] - 1) + aux.requested

\* C30 as stated: in BenchmarkPool every iteration increments exactly one of
\* allocCount and reuseCount, the requested size is between 1024 and 16383,
\* no buffer exceeds 16 KB, totalBytes grows by the requested size, and
\* every buffer taken from the pool is put back at the end of its
\* iteration.
C30_TakenIsPutBack ==
    probe = "Pool" => PoolCounters /\ aux.dropped = 0

\* C30, amended: the same, but what every iteration puts into the pool is
\* the buffer mem holds at its end: the buffer taken from the pool when it
\* was reused, the newly made buffer when one was allocated (the buffer
\* taken from the pool is then dropped).
C30_PoolLoop ==
    probe = "Pool" =>
       /\ PoolCounters
       /\ aux.puts = hist.attempts[1]
       /\ aux.dropped = aux.alloc
       /\ aux.memPool # {} <=> hist.attempts[1] > 0

\* the fourth iteration asked for 8192 bytes, got a buffer of 4096 and made
\* a new one
C30_Witness ==
    /\ probe = "Pool"
    /\ hist.attempts[1] >= 4
    /\ aux.alloc >= 1
    /\ aux.reuse >= 3
    /\ \E b \in aux.memPool : b.cap = 8192

====
